---------------------------- MODULE Spec2Model ----------------------------
(***************************************************************************)
(* Message-relay core of the WhatsApp client library: the LID<->PN mapping *)
(* store, the Signal repository (session validation, deletion, migration), *)
(* the session asserter, the encryption fan-out and the relay pipeline.    *)
(*                                                                         *)
(* A JID "<user>[:<device>]@<server>" is the record                        *)
(* [user, device, server]; device = Undef stands for a text without the    *)
(* ":<device>" part.  A Signal address "<user>[_<domain>].<device>" is the *)
(* record [user, domain, device].                                          *)
(***************************************************************************)
EXTENDS Integers, Sequences, FiniteSets, TLC

VARIABLES
    lidMapping,            \* key store column 'lid-mapping'
    mappingCache,          \* LIDMappingStore.mappingCache (TTLCache)
    session,               \* key store column 'session'
    deviceList,            \* key store column 'device-list'
    migratedSessionCache,  \* makeLibSignalRepository.migratedSessionCache
    peerSessionsCache,     \* makeMessagesSocket.peerSessionsCache
    userDevicesCache,      \* makeMessagesSocket.userDevicesCache
    senderKeyMemory,       \* key store column 'sender-key-memory'
    socketMap,             \* global.__SOCKET_MAP__
    sockets,               \* the sockets created, each with its transport (ws)
    inflight,              \* the calls in progress, each with its position and locals
    ttlCache,              \* a TTLCache: its options and its map
    now,                   \* Date.now()
    last                   \* the last completed call: its arguments and result

mapVars  == <<lidMapping, mappingCache>>
sessVars == <<session, deviceList, migratedSessionCache, peerSessionsCache, inflight>>
relayVars == <<userDevicesCache, senderKeyMemory>>
sockVars  == <<socketMap, sockets>>
ttlVars   == <<ttlCache, now>>
vars     == <<lidMapping, mappingCache, session, deviceList,
              migratedSessionCache, peerSessionsCache, userDevicesCache,
              senderKeyMemory, socketMap, sockets, inflight, ttlCache, now, last>>

---------------------------------------------------------------------------
(* Bounds of the model *)

\* pairs per storeLIDPNMappings call
MaxPairs == 2
\* highest regular device id of a user
MaxDevice == 2
\* highest device id of the user in the step-by-step migration
MaxStepDevice == 1
\* PNs per getLIDsForPNs call
MaxLookups == 2

---------------------------------------------------------------------------
(* JIDs (WABinary/jid-utils) *)

Null  == "null"
Undef == -1

WHATSAPP   == 0
LID        == 1
HOSTED     == 128
HOSTED_LID == 129

HostedDevice == 99

PnUsers  == {"p1", "p2"}
LidUsers == {"l1", "l2"}
AllUsers == PnUsers \cup LidUsers

\* the groups the account is a member of
Groups == {"g1"}

\* sockets created per run, and makeWASocket calls in progress at a time
MaxSockets == 4
MaxCalls   == 2

\* the session ids given to makeWASocket
SessionIds == {"primary"}
Sockets    == 1..MaxSockets

\* ws.readyState
CONNECTING == 0
OPEN       == 1
CLOSING    == 2
CLOSED     == 3

\* a socket not created yet
NoSocket ==
    [created |-> FALSE, id |-> "", readyState |-> CONNECTING, own |-> FALSE, waiters |-> {},
     ev |-> FALSE, terminated |-> FALSE]

Jid(u, d, s) == [user |-> u, device |-> d, server |-> s]

isPnUser(jid)        == jid.server = "s.whatsapp.net"
isLidUser(jid)       == jid.server = "lid"
isHostedPnUser(jid)  == jid.server = "hosted"
isHostedLidUser(jid) == jid.server = "hosted.lid"

domainTypeOf(server) ==
    CASE server = "lid"        -> LID
      [] server = "hosted"     -> HOSTED
      [] server = "hosted.lid" -> HOSTED_LID
      [] OTHER                 -> WHATSAPP

\* jidDecode: the parts of the text, the device undefined when the text has none
jidDecode(jid) ==
    [user |-> jid.user, device |-> jid.device, server |-> jid.server,
     domainType |-> domainTypeOf(jid.server)]

\* jidEncode: a device of 0 (or none) is left out of the text
jidEncode(user, server, device) ==
    Jid(user, IF device = 0 \/ device = Undef THEN Undef ELSE device, server)

jidNormalizedUser(jid) == jidEncode(jid.user, jid.server, Undef)

areJidsSameUser(j1, j2) == jidDecode(j1).user = jidDecode(j2).user

\* `device || 0` and `device !== undefined ? device : 0`
DeviceOr0(d) == IF d = Undef THEN 0 ELSE d

transferDevice(fromJid, toJid) ==
    jidEncode(jidDecode(toJid).user, jidDecode(toJid).server,
              DeviceOr0(jidDecode(fromJid).device))

---------------------------------------------------------------------------
(* TTLCache and the 'lid-mapping' column *)

FwdKey(user) == [user |-> user, rev |-> FALSE]   \* "<user>"
RevKey(user) == [user |-> user, rev |-> TRUE]    \* "<user>_reverse"
MapKeys      == [user : AllUsers, rev : BOOLEAN]

PnCacheKey(user)  == [ns |-> "pn", user |-> user]    \* "pn:<user>"
LidCacheKey(user) == [ns |-> "lid", user |-> user]   \* "lid:<user>"
CacheKeys         == [ns : {"pn", "lid"}, user : AllUsers]

\* TTLCache.get: an entry past its expiration is a miss (Null)
CacheGet(cache, key) == cache[key]
\* TTLCache.set
CacheSet(cache, key, value) == [cache EXCEPT ![key] = value]

\* keys.set({'lid-mapping': {[pnUser]: lidUser, [`${lidUser}_reverse`]: pnUser}})
MappingSet(store, pnUser, lidUser) ==
    [store EXCEPT ![FwdKey(pnUser)] = lidUser, ![RevKey(lidUser)] = pnUser]

---------------------------------------------------------------------------
(* LIDMappingStore.storeLIDPNMappings *)

\* the only element of a one-element set; {e(x) : x \in {v}} binds x to the
\* value v once
The(S) == CHOOSE x \in S : TRUE

ValidPair(pair) ==
    \/ isLidUser(pair.lid) /\ isPnUser(pair.pn)
    \/ isPnUser(pair.lid) /\ isLidUser(pair.pn)

\* obj[key] = value on a JS object kept as a sequence of [key, val]: a key
\* keeps the place of its first insertion
ObjPut(obj, key, value) ==
    IF \E i \in 1..Len(obj) : obj[i].key = key
    THEN [i \in 1..Len(obj) |->
            IF obj[i].key = key THEN [key |-> key, val |-> value] ELSE obj[i]]
    ELSE Append(obj, [key |-> key, val |-> value])

ObjHas(obj, key) == \E i \in 1..Len(obj) : obj[i].key = key
ObjGet(obj, key) == obj[CHOOSE i \in 1..Len(obj) : obj[i].key = key].val
ObjKeys(obj)     == [i \in 1..Len(obj) |-> obj[i].key]
ObjValues(obj)   == [i \in 1..Len(obj) |-> obj[i].val]

\* the cache after a key-store hit for pnUser on a cache miss
CacheFill(cache, pnUser, lidUser) ==
    CacheSet(CacheSet(cache, PnCacheKey(pnUser), lidUser), LidCacheKey(lidUser), pnUser)

\* one round of the validation loop without the test of line 149
StoreStepNoSkip(pair, store, acc) ==
    IF ~ValidPair(pair)
    THEN [acc EXCEPT !.warns = @ + 1]
    ELSE [acc EXCEPT !.pairMap = ObjPut(@, jidDecode(pair.pn).user,
                                        jidDecode(pair.lid).user)]

\* a jid text that jidDecode rejects has no user
Decodable(jid) == jid.user # Null

\* one round of the validation loop: acc = [cache, pairMap, warns, returned];
\* a pair that does not decode makes the call return
StoreStep(pair, store, acc) ==
    IF ~ValidPair(pair)
    THEN [acc EXCEPT !.warns = @ + 1]
    ELSE IF ~Decodable(pair.lid) \/ ~Decodable(pair.pn)
    THEN [acc EXCEPT !.returned = TRUE]
    ELSE The({
        IF u.cached # Null
        THEN IF u.cached = u.lid THEN acc
             ELSE [acc EXCEPT !.pairMap = ObjPut(@, u.pn, u.lid)]
        ELSE IF u.stored = Null
             THEN [acc EXCEPT !.pairMap = ObjPut(@, u.pn, u.lid)]
             ELSE IF u.stored = u.lid
                  THEN [acc EXCEPT !.cache = CacheFill(@, u.pn, u.stored)]
                  ELSE [acc EXCEPT !.cache = CacheFill(@, u.pn, u.stored),
                                   !.pairMap = ObjPut(@, u.pn, u.lid)]
        : u \in {[pn     |-> jidDecode(pair.pn).user,
                  lid    |-> jidDecode(pair.lid).user,
                  cached |-> CacheGet(acc.cache, PnCacheKey(jidDecode(pair.pn).user)),
                  stored |-> store[FwdKey(jidDecode(pair.pn).user)]]} })

RECURSIVE StoreScan(_, _, _)
StoreScan(pairs, store, acc) ==
    IF pairs = <<>> \/ acc.returned THEN acc
    ELSE The({ StoreScan(Tail(pairs), store, a)
               : a \in {StoreStep(Head(pairs), store, acc)} })

\* the 'lid-mapping' transaction: one keys.set and two cache sets per entry
RECURSIVE StoreWrite(_, _)
StoreWrite(pairMap, st) ==
    IF pairMap = <<>> THEN st
    ELSE The({ StoreWrite(Tail(pairMap), s)
               : s \in {[store |-> MappingSet(st.store, Head(pairMap).key, Head(pairMap).val),
                         cache |-> CacheFill(st.cache, Head(pairMap).key, Head(pairMap).val)]} })

\* the whole call: [store, cache, sets, warns]
storeLIDPNMappings(pairs, store, cache) ==
    The({ IF scan.returned
          THEN [store |-> store, cache |-> scan.cache, sets |-> 0, warns |-> scan.warns]
          ELSE The({ [store |-> wr.store, cache |-> wr.cache,
                      sets |-> Len(scan.pairMap), warns |-> scan.warns]
                     : wr \in {StoreWrite(scan.pairMap,
                                          [store |-> store, cache |-> scan.cache])} })
          : scan \in {StoreScan(pairs, store,
                                [cache |-> cache, pairMap |-> <<>>, warns |-> 0,
                                 returned |-> FALSE])} })

---------------------------------------------------------------------------
(* LIDMappingStore.getLIDsForPNs, getLIDForPN, getPNForLID *)

\* `${lidUser}${!!pnDevice ? `:${pnDevice}` : ``}@${server === 'hosted' ? 'hosted.lid' : 'lid'}`
DeviceSpecificLid(lidUser, decoded) ==
    Jid(lidUser,
        IF decoded.device = Undef \/ decoded.device = 0 THEN Undef ELSE decoded.device,
        IF decoded.server = "hosted" THEN "hosted.lid" ELSE "lid")

\* the PN asked of the resolver without the rewrite of a hosted PN
NormalizedPnHosted(pn) == jidNormalizedUser(pn)

\* the PN asked of the resolver: user level, a hosted PN as <user>@s.whatsapp.net
NormalizedPn(pn) ==
    IF isHostedPnUser(jidNormalizedUser(pn))
    THEN Jid(jidDecode(pn).user, Undef, "s.whatsapp.net")
    ELSE jidNormalizedUser(pn)

\* one round of the lookup loop: acc = [cache, usyncFetch, successfulPairs]
LookupStep(pn, store, acc) ==
    IF ~isPnUser(pn) /\ ~isHostedPnUser(pn) THEN acc
    ELSE The({
        IF u.cached # Null
        THEN [acc EXCEPT !.successfulPairs =
                 ObjPut(@, pn, [lid |-> DeviceSpecificLid(u.cached, jidDecode(pn)), pn |-> pn])]
        ELSE IF u.stored # Null
             THEN [acc EXCEPT !.cache = CacheFill(@, u.pn, u.stored),
                              !.successfulPairs =
                                 ObjPut(@, pn, [lid |-> DeviceSpecificLid(u.stored, jidDecode(pn)),
                                                pn |-> pn])]
             ELSE [acc EXCEPT !.usyncFetch =
                     IF ObjHas(@, NormalizedPn(pn))
                     THEN ObjPut(@, NormalizedPn(pn),
                                 Append(ObjGet(@, NormalizedPn(pn)), DeviceOr0(jidDecode(pn).device)))
                     ELSE ObjPut(@, NormalizedPn(pn), <<DeviceOr0(jidDecode(pn).device)>>)]
        : u \in {[pn     |-> jidDecode(pn).user,
                  cached |-> CacheGet(acc.cache, PnCacheKey(jidDecode(pn).user)),
                  stored |-> store[FwdKey(jidDecode(pn).user)]]} })

RECURSIVE LookupScan(_, _, _)
LookupScan(pns, store, acc) ==
    IF pns = <<>> THEN acc
    ELSE The({ LookupScan(Tail(pns), store, a)
               : a \in {LookupStep(Head(pns), store, acc)} })

\* the pairs added for one resolver pair, one per requested device
RECURSIVE UsyncDevicePairs(_, _, _, _)
UsyncDevicePairs(devices, pnUser, lidUser, successfulPairs) ==
    IF devices = <<>> THEN successfulPairs
    ELSE The({ UsyncDevicePairs(Tail(devices), pnUser, lidUser, sp)
               : sp \in {ObjPut(successfulPairs,
                    Jid(pnUser, IF Head(devices) = 0 THEN Undef ELSE Head(devices),
                        IF Head(devices) = HostedDevice THEN "hosted" ELSE "s.whatsapp.net"),
                    [lid |-> Jid(lidUser, IF Head(devices) = 0 THEN Undef ELSE Head(devices),
                                 IF Head(devices) = HostedDevice THEN "hosted.lid" ELSE "lid"),
                     pn  |-> Jid(pnUser, IF Head(devices) = 0 THEN Undef ELSE Head(devices),
                                 IF Head(devices) = HostedDevice THEN "hosted"
                                 ELSE "s.whatsapp.net")])} })

\* the loop over the resolver's pairs; usyncFetch[pair.pn] of a PN that was
\* not asked is undefined and iterating it throws
RECURSIVE UsyncResultScan(_, _, _)
UsyncResultScan(result, usyncFetch, successfulPairs) ==
    IF result = <<>> THEN [threw |-> FALSE, successfulPairs |-> successfulPairs]
    ELSE IF ~ObjHas(usyncFetch, Head(result).pn)
         THEN [threw |-> TRUE, successfulPairs |-> successfulPairs]
         ELSE The({ UsyncResultScan(Tail(result), usyncFetch, sp)
                    : sp \in {UsyncDevicePairs(ObjGet(usyncFetch, Head(result).pn),
                                               jidDecode(Head(result).pn).user,
                                               jidDecode(Head(result).lid).user,
                                               successfulPairs)} })

\* what pnToLIDFunc answers: a pair for each asked PN the server knows a LID
\* for (known[user] # Null), nothing for the others; <<>> is null or empty
RECURSIVE ResolverAnswer(_, _)
ResolverAnswer(known, asked) ==
    IF asked = <<>> THEN <<>>
    ELSE IF known[Head(asked).user] # Null
         THEN <<[pn |-> Head(asked),
                 lid |-> Jid(known[Head(asked).user], Undef, "lid")]>>
              \o ResolverAnswer(known, Tail(asked))
         ELSE ResolverAnswer(known, Tail(asked))

\* the part of the call after the resolver answered
LookupFinish(scan, store, result) ==
    IF result = <<>>
    THEN [ret |-> "null", pairs |-> <<>>, store |-> store, cache |-> scan.cache,
          asked |-> ObjKeys(scan.usyncFetch), sets |-> 0]
    ELSE The({ The({ [ret |-> IF fin.threw THEN "throw" ELSE "ok",
                      pairs |-> ObjValues(fin.successfulPairs),
                      store |-> st.store, cache |-> st.cache,
                      asked |-> ObjKeys(scan.usyncFetch), sets |-> st.sets]
                     : fin \in {UsyncResultScan(result, scan.usyncFetch,
                                                scan.successfulPairs)} })
               : st \in {storeLIDPNMappings(result, store, scan.cache)} })

\* the whole call; known is what the resolver's server knows
\*   [ret: "ok" | "null" | "throw", pairs, store, cache, asked, sets]
getLIDsForPNs(pns, store, cache, known) ==
    The({ IF scan.usyncFetch = <<>>
          THEN [ret |-> "ok", pairs |-> ObjValues(scan.successfulPairs),
                store |-> store, cache |-> scan.cache, asked |-> <<>>, sets |-> 0]
          ELSE The({ LookupFinish(scan, store, result)
                     : result \in {ResolverAnswer(known, ObjKeys(scan.usyncFetch))} })
          : scan \in {LookupScan(pns, store,
                        [cache |-> cache, usyncFetch |-> <<>>, successfulPairs |-> <<>>])} })

NoJid == Jid(Null, Undef, Null)

\* ((await this.getLIDsForPNs([pn]))?.[0].lid) || null
\*   [ret: "ok" (lid, NoJid for null) | "throw", lid, store, cache, asked]
getLIDForPN(pn, store, cache, known) ==
    The({ [ret |-> IF r.ret = "throw" \/ (r.ret = "ok" /\ r.pairs = <<>>)
                   THEN "throw" ELSE "ok",
           lid |-> IF r.ret = "ok" /\ r.pairs # <<>> THEN r.pairs[1].lid ELSE NoJid,
           store |-> r.store, cache |-> r.cache, asked |-> r.asked]
          : r \in {getLIDsForPNs(<<pn>>, store, cache, known)} })

\* getPNForLID: [pn (NoJid for null), cache]
getPNForLID(lid, store, cache) ==
    IF ~isLidUser(lid) THEN [pn |-> NoJid, cache |-> cache]
    ELSE The({
        IF u.cached # Null
        THEN [pn |-> Jid(u.cached, DeviceOr0(jidDecode(lid).device),
                         IF jidDecode(lid).domainType = HOSTED_LID
                         THEN "hosted" ELSE "s.whatsapp.net"),
              cache |-> cache]
        ELSE IF u.stored = Null THEN [pn |-> NoJid, cache |-> cache]
             ELSE [pn |-> Jid(u.stored, DeviceOr0(jidDecode(lid).device),
                              IF jidDecode(lid).domainType = HOSTED_LID
                              THEN "hosted" ELSE "s.whatsapp.net"),
                   cache |-> CacheSet(cache, LidCacheKey(jidDecode(lid).user), u.stored)]
        : u \in {[cached |-> CacheGet(cache, LidCacheKey(jidDecode(lid).user)),
                  stored |-> store[RevKey(jidDecode(lid).user)]]} })

---------------------------------------------------------------------------
(* Signal addresses and the 'session' column (libsignal.js) *)

Addr(user, domain, device) == [user |-> user, domain |-> domain, device |-> device]
NoAddr == Addr(Null, 0, 0)

\* jidToSignalProtocolAddress(jid).toString(); NoAddr when it throws (a
\* device 99 on a server that is not hosted)
jidToSignalProtocolAddress(jid) ==
    IF jidDecode(jid).device = HostedDevice
       /\ jidDecode(jid).server # "hosted" /\ jidDecode(jid).server # "hosted.lid"
    THEN NoAddr
    ELSE Addr(jidDecode(jid).user, jidDecode(jid).domainType,
              DeviceOr0(jidDecode(jid).device))

\* a session record: closed or open, and the address it was created under
NoSession == [st |-> "null", origin |-> NoAddr]
OpenSession(origin)   == [st |-> "open", origin |-> origin]
ClosedSession(origin) == [st |-> "closed", origin |-> origin]

\* SessionRecord.haveOpenSession
haveOpenSession(sess) == sess.st = "open"

Devices   == 0..MaxDevice
SessAddrs == {Addr(u, WHATSAPP, d) : u \in PnUsers, d \in Devices}
             \cup {Addr(u, LID, d) : u \in LidUsers, d \in Devices}
             \cup {Addr(u, HOSTED, HostedDevice) : u \in PnUsers}
             \cup {Addr(u, HOSTED_LID, HostedDevice) : u \in LidUsers}

\* keys.get('session', [addr])[addr]
SessionGet(sessions, addr) ==
    IF addr \in DOMAIN sessions THEN sessions[addr] ELSE NoSession

\* keys.set({session: updates}): one write of every entry of the batch;
\* updates is a set of [addr, val]
SessionSet(sessions, updates) ==
    [a \in DOMAIN sessions |->
        IF \E u \in updates : u.addr = a
        THEN (CHOOSE u \in updates : u.addr = a).val
        ELSE sessions[a]]

---------------------------------------------------------------------------
(* signalStorage: resolveLIDSignalAddress, loadSession *)

\* the PN jid rebuilt from a PN address: device 0 is left out of the text
AddrPnJid(addr) ==
    Jid(addr.user, IF addr.device = 0 THEN Undef ELSE addr.device,
        IF addr.domain = HOSTED THEN "hosted" ELSE "s.whatsapp.net")

\* resolveLIDSignalAddress(id): [ret: "ok" | "throw", addr, store, cache];
\* a LID address is kept, a PN address becomes the address of its LID when
\* getLIDForPN finds one
resolveLIDSignalAddress(addr, store, cache, known) ==
    IF addr.domain = LID \/ addr.domain = HOSTED_LID
    THEN [ret |-> "ok", addr |-> addr, store |-> store, cache |-> cache]
    ELSE The({
        IF r.ret = "throw"
        THEN [ret |-> "throw", addr |-> addr, store |-> r.store, cache |-> r.cache]
        ELSE IF r.lid = NoJid
        THEN [ret |-> "ok", addr |-> addr, store |-> r.store, cache |-> r.cache]
        ELSE IF jidToSignalProtocolAddress(r.lid) = NoAddr
        THEN [ret |-> "throw", addr |-> addr, store |-> r.store, cache |-> r.cache]
        ELSE [ret |-> "ok", addr |-> jidToSignalProtocolAddress(r.lid),
              store |-> r.store, cache |-> r.cache]
        : r \in {getLIDForPN(AddrPnJid(addr), store, cache, known)} })

\* loadSession(id): [sess (NoSession for null), store, cache]; an error of
\* the resolution is swallowed
loadSession(addr, sessions, store, cache, known) ==
    The({
        [sess  |-> IF w.ret = "throw" THEN NoSession ELSE SessionGet(sessions, w.addr),
         store |-> w.store, cache |-> w.cache]
        : w \in {resolveLIDSignalAddress(addr, store, cache, known)} })

\* storeSession(id, session) under the address as given
storeSessionUnresolved(addr, val, sessions, store, cache, known) ==
    [ret |-> "ok", sessions |-> SessionSet(sessions, {[addr |-> addr, val |-> val]}),
     store |-> store, cache |-> cache]

\* storeSession(id, session): [ret, sessions, store, cache]; the record is
\* written under the resolved address
storeSession(addr, val, sessions, store, cache, known) ==
    The({
        IF w.ret = "throw"
        THEN [ret |-> "throw", sessions |-> sessions, store |-> w.store, cache |-> w.cache]
        ELSE [ret |-> "ok",
              sessions |-> SessionSet(sessions, {[addr |-> w.addr, val |-> val]}),
              store |-> w.store, cache |-> w.cache]
        : w \in {resolveLIDSignalAddress(addr, store, cache, known)} })

---------------------------------------------------------------------------
(* makeLibSignalRepository.validateSession, injectE2ESession *)

\* validateSession(jid): [exists, reason, store, cache]
validateSession(jid, sessions, store, cache, known) ==
    IF jidToSignalProtocolAddress(jid) = NoAddr
    THEN [exists |-> FALSE, reason |-> "validation error", store |-> store, cache |-> cache]
    ELSE The({
        [exists |-> haveOpenSession(l.sess),
         reason |-> IF l.sess = NoSession THEN "no session"
                    ELSE IF ~haveOpenSession(l.sess) THEN "no open session" ELSE "",
         store |-> l.store, cache |-> l.cache]
        : l \in {loadSession(jidToSignalProtocolAddress(jid), sessions, store, cache, known)} })

\* injectE2ESession({jid, session}): SessionBuilder.initOutgoing stores a
\* record with a new open session under the resolved address
\*   [ret, sessions, store, cache]
injectE2ESession(jid, sessions, store, cache, known) ==
    IF jidToSignalProtocolAddress(jid) = NoAddr
    THEN [ret |-> "throw", sessions |-> sessions, store |-> store, cache |-> cache]
    ELSE The({
        IF w.ret = "throw"
        THEN [ret |-> "throw", sessions |-> sessions, store |-> w.store, cache |-> w.cache]
        ELSE [ret |-> "ok",
              sessions |-> SessionSet(sessions, {[addr |-> w.addr, val |-> OpenSession(w.addr)]}),
              store |-> w.store, cache |-> w.cache]
        : w \in {resolveLIDSignalAddress(jidToSignalProtocolAddress(jid), store, cache, known)} })

---------------------------------------------------------------------------
(* makeLibSignalRepository.migrateSession *)

MigKey(user, device) == [user |-> user, device |-> device]   \* "<user>.<device>"

\* the jid built for a device that has a stored session (lines 214-218)
MigrationJid(user, deviceNum) ==
    IF deviceNum = HostedDevice THEN Jid(user, HostedDevice, "hosted")
    ELSE IF deviceNum = 0 THEN Jid(user, Undef, "s.whatsapp.net")
    ELSE Jid(user, deviceNum, "s.whatsapp.net")

\* the persisted list with the source device, whatever the cache marks
UncachedDevicesAll(fromJid, devices, cache) ==
    devices \cup {DeviceOr0(jidDecode(fromJid).device)}

\* the devices whose sessions are looked at: the persisted list with the
\* source device, without those marked in the migrated-session cache
UncachedDevices(fromJid, devices, cache) ==
    {d \in devices \cup {DeviceOr0(jidDecode(fromJid).device)} :
        MigKey(jidDecode(fromJid).user, d) \notin cache}

\* deviceJids: the devices with a stored session under "<user>.<device>"
MigrationDevicesAll(user, uncached, sessions) == uncached
MigrationDevices(user, uncached, sessions) ==
    {d \in uncached : SessionGet(sessions, Addr(user, WHATSAPP, d)) # NoSession}

\* migrationOps: one per device jid
MigrationOp(user, d, toJid) ==
    [fromAddr |-> jidToSignalProtocolAddress(MigrationJid(user, d)),
     toAddr   |-> jidToSignalProtocolAddress(transferDevice(MigrationJid(user, d), toJid)),
     deviceId |-> DeviceOr0(jidDecode(MigrationJid(user, d)).device),
     user     |-> user]

\* the ops whose PN session is stored and open: these are migrated
MigratedOpsAny(ops, sessions) ==
    {op \in ops : SessionGet(sessions, op.fromAddr) # NoSession}
MigratedOps(ops, sessions) ==
    {op \in ops : haveOpenSession(SessionGet(sessions, op.fromAddr))}

\* sessionUpdates: the LID address gets the PN record, the PN address null
SessionUpdates(migrated, sessions) ==
    {[addr |-> op.toAddr, val |-> SessionGet(sessions, op.fromAddr)] : op \in migrated}
    \cup {[addr |-> op.fromAddr, val |-> NoSession] : op \in migrated}

Counts(m, s, t) == [migrated |-> m, skipped |-> s, total |-> t]

\* the transaction of the call
MigrateTransaction(ops, sessions, cache) ==
    IF \E op \in ops : op.toAddr = NoAddr \/ op.fromAddr = NoAddr
    THEN [ret |-> "throw", counts |-> Counts(0, 0, 0), sessions |-> sessions,
          cache |-> cache]
    ELSE The({
        [ret |-> "ok",
         counts |-> Counts(Cardinality(mig), Cardinality(ops) - Cardinality(mig),
                           Cardinality(ops)),
         sessions |-> IF mig = {} THEN sessions
                      ELSE SessionSet(sessions, SessionUpdates(mig, sessions)),
         cache |-> cache \cup {MigKey(op.user, op.deviceId) : op \in mig}]
        : mig \in {MigratedOps(ops, sessions)} })

\* the whole call: [ret, counts, sessions, cache]
migrateSession(fromJid, toJid, sessions, lists, cache) ==
    IF ~isLidUser(toJid) /\ ~isHostedLidUser(toJid)
    THEN [ret |-> "ok", counts |-> Counts(0, 0, 0), sessions |-> sessions, cache |-> cache]
    ELSE IF ~isPnUser(fromJid) /\ ~isHostedPnUser(fromJid)
    THEN [ret |-> "ok", counts |-> Counts(0, 0, 1), sessions |-> sessions, cache |-> cache]
    ELSE IF lists[jidDecode(fromJid).user] = {}
    THEN [ret |-> "ok", counts |-> Counts(0, 0, 0), sessions |-> sessions, cache |-> cache]
    ELSE The({
        MigrateTransaction({MigrationOp(jidDecode(fromJid).user, d, toJid) : d \in devs},
                           sessions, cache)
        : devs \in {MigrationDevices(jidDecode(fromJid).user,
                        UncachedDevices(fromJid, lists[jidDecode(fromJid).user], cache),
                        sessions)} })

\* deleteSession(jids): every address of the batch set to null in one write
deleteSession(jids, sessions) ==
    IF jids = {} THEN sessions
    ELSE SessionSet(sessions,
             {[addr |-> jidToSignalProtocolAddress(jid), val |-> NoSession] : jid \in jids})

---------------------------------------------------------------------------
(* makeMessagesSocket.assertSessions *)

\* NodeCache.get / set on peerSessionsCache: "none" is undefined
PeerGet(peer, addr) == IF addr \in DOMAIN peer THEN peer[addr] ELSE "none"
PeerSet(peer, addr, has) ==
    [a \in DOMAIN peer |-> IF a = addr THEN (IF has THEN "true" ELSE "false") ELSE peer[a]]

\* [...new Set(seq)]: the first occurrence of every element, in order
RECURSIVE Unique(_)
Unique(seq) ==
    IF seq = <<>> THEN <<>>
    ELSE <<Head(seq)>> \o Unique(SelectSeq(Tail(seq), LAMBDA x : x # Head(seq)))

\* one round of the checking loop: acc = [store, cache, peer, fetch]
AssertStep(jid, force, sessions, known, acc) ==
    IF PeerGet(acc.peer, jidToSignalProtocolAddress(jid)) # "none"
    THEN IF PeerGet(acc.peer, jidToSignalProtocolAddress(jid)) = "true" /\ ~force
         THEN acc
         ELSE [acc EXCEPT !.fetch = Append(@, jid)]
    ELSE The({
        [store |-> v.store, cache |-> v.cache,
         peer  |-> PeerSet(acc.peer, jidToSignalProtocolAddress(jid), v.exists),
         fetch |-> IF v.exists /\ ~force THEN acc.fetch ELSE Append(acc.fetch, jid)]
        : v \in {validateSession(jid, sessions, acc.store, acc.cache, known)} })

RECURSIVE AssertScan(_, _, _, _, _)
AssertScan(jids, force, sessions, known, acc) ==
    IF jids = <<>> THEN acc
    ELSE The({ AssertScan(Tail(jids), force, sessions, known, a)
               : a \in {AssertStep(Head(jids), force, sessions, known, acc)} })

\* jidsRequiringFetch.filter: the LID (hosted LID) or the PN (hosted PN) jids
FilterJids(seq, lidSide) ==
    SelectSeq(seq, LAMBDA jid :
        IF lidSide THEN isLidUser(jid) \/ isHostedLidUser(jid)
        ELSE isPnUser(jid) \/ isHostedPnUser(jid))

\* wireJids: the LID jids, then the LIDs of the PN jids; no PN jid is kept
\* when getLIDsForPNs returns null
WireJids(fetch, r) ==
    FilterJids(fetch, TRUE)
    \o (IF r.ret = "ok" THEN [i \in 1..Len(r.pairs) |-> r.pairs[i].lid] ELSE <<>>)

\* parseAndInjectE2ESessions: a session is injected for every jid the server
\* answered with a bundle; st = [ret, sessions, store, cache]
RECURSIVE InjectAll(_, _, _, _)
InjectAll(wire, served, known, st) ==
    IF wire = <<>> \/ st.ret = "throw" THEN st
    ELSE IF Head(wire) \notin served THEN InjectAll(Tail(wire), served, known, st)
    ELSE The({ InjectAll(Tail(wire), served, known, n)
               : n \in {injectE2ESession(Head(wire), st.sessions, st.store, st.cache, known)} })

\* peerSessionsCache.set(signalId, true) for every wire jid
RECURSIVE PeerSetAll(_, _)
PeerSetAll(peer, wire) ==
    IF wire = <<>> THEN peer
    ELSE PeerSetAll(PeerSet(peer, jidToSignalProtocolAddress(Head(wire)), TRUE), Tail(wire))

\* the part of the call after the loop
AssertFetch(scan, sessions, known, served) ==
    IF scan.fetch = <<>>
    THEN [ret |-> "ok", fetched |-> FALSE, sessions |-> sessions, store |-> scan.store,
          cache |-> scan.cache, peer |-> scan.peer, fetch |-> <<>>, wire |-> <<>>]
    ELSE The({
        IF r.ret = "throw"
        THEN [ret |-> "throw", fetched |-> FALSE, sessions |-> sessions,
              store |-> r.store, cache |-> r.cache, peer |-> scan.peer,
              fetch |-> scan.fetch, wire |-> <<>>]
        ELSE The({
            [ret |-> inj.ret, fetched |-> inj.ret = "ok", sessions |-> inj.sessions,
             store |-> inj.store, cache |-> inj.cache,
             peer |-> IF inj.ret = "ok" THEN PeerSetAll(scan.peer, WireJids(scan.fetch, r))
                      ELSE scan.peer,
             fetch |-> scan.fetch, wire |-> WireJids(scan.fetch, r)]
            : inj \in {InjectAll(WireJids(scan.fetch, r), served, known,
                          [ret |-> "ok", sessions |-> sessions, store |-> r.store,
                           cache |-> r.cache])} })
        : r \in {getLIDsForPNs(FilterJids(scan.fetch, FALSE), scan.store, scan.cache, known)} })

\* the whole call; served: the jids the server has a prekey bundle for; a
\* jid that has no Signal address makes the call throw
\*   [ret, fetched, sessions, store, cache, peer, fetch, wire]; fetch is
\*   jidsRequiringFetch and wire the jids of the key node
assertSessions(jids, force, sessions, store, cache, peer, known, served) ==
    IF \E i \in 1..Len(jids) : jidToSignalProtocolAddress(jids[i]) = NoAddr
    THEN [ret |-> "throw", fetched |-> FALSE, sessions |-> sessions, store |-> store,
          cache |-> cache, peer |-> peer, fetch |-> <<>>, wire |-> <<>>]
    ELSE The({ AssertFetch(scan, sessions, known, served)
               : scan \in {AssertScan(Unique(jids), force, sessions, known,
                             [store |-> store, cache |-> cache, peer |-> peer,
                              fetch |-> <<>>])} })

---------------------------------------------------------------------------
(* TTLCache with its clock (part_000) *)

\* the largest ttl of a cache, in ticks of the clock
MaxTtl == 2
\* the last tick of the clock
MaxTime == 4

TtlKeys == {"k1", "k2"}
TtlValues == {"v1", "v2"}
\* get returns undefined
Miss == "undefined"

\* constructor({ ttl, updateAgeOnGet }); a ttl of 0 stands for no ttl
TTLCache(ttl, updateAgeOnGet) ==
    [ttl |-> ttl, updateAgeOnGet |-> updateAgeOnGet, map |-> <<>>]

\* this.map.delete(key)
MapDelete(map, key) == [k \in DOMAIN map \ {key} |-> map[k]]
\* this.map.set(key, item)
MapSet(map, key, item) == [k \in DOMAIN map \cup {key} |-> IF k = key THEN item ELSE map[k]]

\* get with an entry expiring only after its expiration time has passed
TTLGetLate(c, key, t) ==
    IF key \notin DOMAIN c.map
    THEN [ret |-> Miss, cache |-> c]
    ELSE IF c.map[key].expiresAt # 0 /\ c.map[key].expiresAt < t
    THEN [ret |-> Miss, cache |-> [c EXCEPT !.map = MapDelete(@, key)]]
    ELSE [ret |-> c.map[key].value,
          cache |-> IF c.updateAgeOnGet /\ c.ttl # 0
                    THEN [c EXCEPT !.map = MapSet(@, key,
                             [c.map[key] EXCEPT !.expiresAt = t + c.ttl])]
                    ELSE c]

\* TTLCache.get(key) at time t: the value returned and the cache left behind
TTLGet(c, key, t) ==
    IF key \notin DOMAIN c.map
    THEN [ret |-> Miss, cache |-> c]
    ELSE IF c.map[key].expiresAt # 0 /\ c.map[key].expiresAt <= t
    THEN [ret |-> Miss, cache |-> [c EXCEPT !.map = MapDelete(@, key)]]
    ELSE [ret |-> c.map[key].value,
          cache |-> IF c.updateAgeOnGet /\ c.ttl # 0
                    THEN [c EXCEPT !.map = MapSet(@, key,
                             [c.map[key] EXCEPT !.expiresAt = t + c.ttl])]
                    ELSE c]

\* TTLCache.set(key, value) at time t
TTLSet(c, key, value, t) ==
    [c EXCEPT !.map = MapSet(@, key,
        [value |-> value, expiresAt |-> IF c.ttl # 0 THEN t + c.ttl ELSE 0])]

---------------------------------------------------------------------------
(* Initial state: empty key store, empty caches *)

SeqsUpTo(S, n) == UNION {[1..k -> S] : k \in 0..n}

PnJid(u)  == Jid(u, Undef, "s.whatsapp.net")
LidJid(u) == Jid(u, Undef, "lid")

MapJids    == {PnJid(u) : u \in PnUsers} \cup {LidJid(u) : u \in LidUsers}

\* the pairs given to storeLIDPNMappings: every well-oriented pair and one
\* pair that is no LID-PN pair
OrientedPairs == {[lid |-> LidJid(l), pn |-> PnJid(p)] : l \in LidUsers, p \in PnUsers}
InvalidPairs  == {[lid |-> PnJid("p1"), pn |-> PnJid("p2")]}
PairInputs    == OrientedPairs \cup InvalidPairs

NoCall == [op |-> "none"]

Init ==
    /\ lidMapping = [k \in MapKeys |-> Null]
    /\ mappingCache = [k \in CacheKeys |-> Null]
    /\ session = [a \in SessAddrs |-> NoSession]
    /\ deviceList = [u \in AllUsers |-> {}]
    /\ migratedSessionCache = {}
    /\ peerSessionsCache = [a \in SessAddrs |-> "none"]
    /\ userDevicesCache = [u \in AllUsers |-> <<>>]
    /\ senderKeyMemory = [g \in Groups |-> {}]
    /\ socketMap = [id \in SessionIds |-> 0]
    /\ sockets = [k \in Sockets |-> NoSocket]
    /\ inflight = <<>>
    /\ ttlCache = TTLCache(MaxTtl, TRUE)
    /\ now = 1
    /\ last = NoCall

---------------------------------------------------------------------------
(* The mapping store's operations *)

\* the server knows one LID for every PN user, or none
ResolverKnowledge == {[u \in PnUsers |-> a] : a \in LidUsers \cup {Null}}

StoreCall(inputs) ==
    \E pairs \in SeqsUpTo(inputs, MaxPairs) :
      \E r \in {storeLIDPNMappings(pairs, lidMapping, mappingCache)} :
        /\ lidMapping' = r.store
        /\ mappingCache' = r.cache
        /\ last' = [op |-> "storeLIDPNMappings", pairs |-> pairs,
                    sets |-> r.sets, warns |-> r.warns]
        /\ UNCHANGED <<sockVars, ttlVars, relayVars, sessVars>>

StoreLIDPNMappings == StoreCall(PairInputs)

GetLIDForPN ==
    \E pn \in MapJids, known \in ResolverKnowledge :
      \E r \in {getLIDForPN(pn, lidMapping, mappingCache, known)} :
        /\ lidMapping' = r.store
        /\ mappingCache' = r.cache
        /\ last' = [op |-> "getLIDForPN", pn |-> pn, ret |-> r.ret, lid |-> r.lid,
                    asked |-> r.asked]
        /\ UNCHANGED <<sockVars, ttlVars, relayVars, sessVars>>

GetPNForLID ==
    \E lid \in MapJids :
      \E r \in {getPNForLID(lid, lidMapping, mappingCache)} :
        /\ mappingCache' = r.cache
        /\ last' = [op |-> "getPNForLID", lid |-> lid, pn |-> r.pn]
        /\ UNCHANGED <<sockVars, ttlVars, relayVars, lidMapping, sessVars>>

\* time passes beyond an entry's expiration: TTLCache.get drops it
MappingCacheExpire ==
    \E key \in CacheKeys :
        /\ mappingCache[key] # Null
        /\ mappingCache' = [mappingCache EXCEPT ![key] = Null]
        /\ last' = NoCall
        /\ UNCHANGED <<sockVars, ttlVars, relayVars, lidMapping, sessVars>>

NextMapping ==
    \/ StoreLIDPNMappings
    \/ GetLIDForPN
    \/ GetPNForLID
    \/ MappingCacheExpire

SpecMapping == Init /\ [][NextMapping]_vars

---------------------------------------------------------------------------
(* Claims on the mapping store *)

NoResolver == [u \in PnUsers |-> Null]

\* C1: for every pair (pn, lid) whose forward entry pn-user -> lid-user is
\* persisted, getLIDForPN(pn) returns a JID of that LID user and
\* getPNForLID(lid) returns a JID of that PN user.
C1_RoundTrip ==
    \A pn \in PnUsers, lid \in LidUsers :
        lidMapping[FwdKey(pn)] = lid =>
            /\ getLIDForPN(PnJid(pn), lidMapping, mappingCache, NoResolver).lid.user = lid
            /\ getPNForLID(LidJid(lid), lidMapping, mappingCache).pn.user = pn

\* C2: a forward entry pn-user -> lid-user is present if and only if the
\* reverse entry lid-user_reverse -> pn-user is present for the same pair.
C2_NoHalfMap ==
    \A pn \in PnUsers, lid \in LidUsers :
        lidMapping[FwdKey(pn)] = lid <=> lidMapping[RevKey(lid)] = pn

\* the PNs given to getLIDsForPNs: with no device, and on the hosted device
\* with either server
LookupJids ==
    {Jid("p1", Undef, "s.whatsapp.net"), Jid("p1", HostedDevice, "hosted"),
     Jid("p2", HostedDevice, "s.whatsapp.net")}

GetLIDsForPNs ==
    \E pns \in SeqsUpTo(LookupJids, MaxLookups), known \in ResolverKnowledge :
      \E r \in {getLIDsForPNs(pns, lidMapping, mappingCache, known)} :
        /\ lidMapping' = r.store
        /\ mappingCache' = r.cache
        /\ last' = [op |-> "getLIDsForPNs", pns |-> pns, known |-> known,
                    ret |-> r.ret, pairs |-> r.pairs, asked |-> r.asked]
        /\ UNCHANGED <<sockVars, ttlVars, relayVars, sessVars>>

NextLookup ==
    \/ GetLIDsForPNs
    \/ MappingCacheExpire

SpecLookup == Init /\ [][NextLookup]_vars

\* a getLIDsForPNs call on one PN that misses the cache and the key store
\* completes in this step, and the resolver knows a LID for the PN user
LookupMissStep ==
    /\ last'.op = "getLIDsForPNs" /\ Len(last'.pns) = 1
    /\ mappingCache[PnCacheKey(last'.pns[1].user)] = Null
    /\ lidMapping[FwdKey(last'.pns[1].user)] = Null
    /\ last'.known[last'.pns[1].user] # Null

\* C21: getLIDsForPNs on a PN that misses the cache and the key store asks
\* the resolver; when the resolver returns a pair, the forward and reverse
\* entries are persisted, the cache holds pn:<user> and lid:<user>, and the
\* returned pair keeps the input's device: no device or device 0 gives
\* <pn-user>@s.whatsapp.net and <lid-user>@lid, device 99 the hosted and
\* hosted.lid servers.
C21_LookupMissLearns ==
    [][LookupMissStep =>
         \E pn \in {last'.pns[1]} : \E lid \in {last'.known[pn.user]} :
            /\ last'.asked = <<Jid(pn.user, Undef, "s.whatsapp.net")>>
            /\ lidMapping'[FwdKey(pn.user)] = lid
            /\ lidMapping'[RevKey(lid)] = pn.user
            /\ mappingCache'[PnCacheKey(pn.user)] = lid
            /\ mappingCache'[LidCacheKey(lid)] = pn.user
            /\ last'.ret = "ok"
            /\ last'.pairs =
                  IF pn.device = HostedDevice
                  THEN <<[lid |-> Jid(lid, HostedDevice, "hosted.lid"),
                          pn  |-> Jid(pn.user, HostedDevice, "hosted")]>>
                  ELSE <<[lid |-> Jid(lid, Undef, "lid"),
                          pn  |-> Jid(pn.user, Undef, "s.whatsapp.net")]>>]_vars

\* a lookup of a hosted device has learned its mapping from the resolver
C21_Witness ==
    /\ last.op = "getLIDsForPNs" /\ Len(last.pns) = 1
    /\ last.asked # <<>> /\ last.ret = "ok"
    /\ last.pns[1].device = HostedDevice
    /\ lidMapping[FwdKey(last.pns[1].user)] = last.known[last.pns[1].user]
    /\ last.pairs # <<>>

\* the mapping store under storeLIDPNMappings calls with LID-PN pairs alone
StoreOrientedPairs == StoreCall(OrientedPairs)

NextStore ==
    \/ StoreOrientedPairs
    \/ MappingCacheExpire

SpecStore == Init /\ [][NextStore]_vars

\* a storeLIDPNMappings call completes in this step
StoreCallStep == last'.op = "storeLIDPNMappings" /\ last'.pairs # <<>>

\* the forward entry of the pair is persisted
Persisted(pair, store) ==
    /\ ValidPair(pair)
    /\ store[FwdKey(jidDecode(pair.pn).user)] = jidDecode(pair.lid).user

\* C19: storeLIDPNMappings is idempotent: a call whose pairs are all
\* persisted already leaves the lid-mapping column unchanged and issues no
\* key-store set.
C19_StoreIdempotent ==
    [][(/\ StoreCallStep
        /\ \A i \in 1..Len(last'.pairs) : Persisted(last'.pairs[i], lidMapping))
       => lidMapping' = lidMapping /\ last'.sets = 0]_vars

\* a call has stored pairs that were all persisted already and has issued
\* no key-store set
C19_Witness ==
    /\ last.op = "storeLIDPNMappings" /\ last.pairs # <<>> /\ last.sets = 0
    /\ \A i \in 1..Len(last.pairs) : Persisted(last.pairs[i], lidMapping)

\* C20: storeLIDPNMappings never replaces a persisted forward entry
\* pn-user -> lid-user by another LID user without reporting a warning or
\* an error, and a pair equal to the persisted mapping is a no-op.
C20_NoSilentOverwrite ==
    [][StoreCallStep =>
         /\ \A pn \in PnUsers :
               (/\ lidMapping[FwdKey(pn)] # Null
                /\ lidMapping'[FwdKey(pn)] # lidMapping[FwdKey(pn)])
               => last'.warns > 0
         /\ (\A i \in 1..Len(last'.pairs) : Persisted(last'.pairs[i], lidMapping))
               => lidMapping' = lidMapping /\ last'.sets = 0]_vars

\* pairs of every kind: LID-PN pairs, a pair that is no LID-PN pair, and a
\* pair whose lid ends in @lid but does not decode
UndecodablePairs == {[lid |-> Jid(Null, Undef, "lid"), pn |-> PnJid("p2")]}
AnyPairs ==
    {[lid |-> LidJid("l1"), pn |-> PnJid("p1")],
     [lid |-> LidJid("l2"), pn |-> PnJid("p2")],
     [lid |-> LidJid("l2"), pn |-> PnJid("p1")]}
    \cup InvalidPairs \cup UndecodablePairs

StoreAnyPairs == StoreCall(AnyPairs)

NextStoreAny ==
    \/ StoreAnyPairs
    \/ MappingCacheExpire

SpecStoreAny == Init /\ [][NextStoreAny]_vars

\* the pairs of the call that are LID-PN pairs and decode
GoodPair(pair) == ValidPair(pair) /\ Decodable(pair.lid) /\ Decodable(pair.pn)

\* C22: in storeLIDPNMappings an invalid or undecodable pair affects only
\* itself: it is skipped with a warning and every valid pair of the call is
\* persisted (stated for calls whose valid pairs name different PN users).
C22_BadPairAffectsOnlyItself ==
    [][(/\ StoreCallStep
        /\ \A i, j \in 1..Len(last'.pairs) :
              (i # j /\ GoodPair(last'.pairs[i]) /\ GoodPair(last'.pairs[j]))
              => last'.pairs[i].pn # last'.pairs[j].pn)
       => /\ \A i \in 1..Len(last'.pairs) :
               GoodPair(last'.pairs[i]) => Persisted(last'.pairs[i], lidMapping')
          /\ last'.warns =
               Cardinality({i \in 1..Len(last'.pairs) : ~GoodPair(last'.pairs[i])})]_vars

---------------------------------------------------------------------------
(* The Signal repository's session operations on one PN user and its LID *)

U == "p1"
L == "l1"

PnDeviceJids == {MigrationJid(U, d) : d \in Devices}

\* a prekey bundle is injected for a device of the user, addressed by its PN
InjectE2ESession ==
    \E jid \in PnDeviceJids :
        \E r \in {injectE2ESession(jid, session, lidMapping, mappingCache, NoResolver)} :
            /\ session' = r.sessions
            /\ lidMapping' = r.store
            /\ mappingCache' = r.cache
            /\ last' = NoCall
            /\ UNCHANGED <<sockVars, ttlVars, relayVars, deviceList, migratedSessionCache, peerSessionsCache, inflight>>

\* the Signal library closes the open session of a record
CloseOpenSession ==
    \E d \in Devices :
        /\ haveOpenSession(session[Addr(U, WHATSAPP, d)])
        /\ session' = [session EXCEPT ![Addr(U, WHATSAPP, d)] =
                           ClosedSession(session[Addr(U, WHATSAPP, d)].origin)]
        /\ last' = NoCall
        /\ UNCHANGED <<sockVars, ttlVars, relayVars, mapVars, deviceList, migratedSessionCache, peerSessionsCache, inflight>>

\* getUSyncDevices persists the device list the server reported for the
\* user: its devices 0..k
StoreDeviceList ==
    \E k \in Devices :
        /\ deviceList' = [deviceList EXCEPT ![U] = 0..k]
        /\ last' = NoCall
        /\ UNCHANGED <<sockVars, ttlVars, relayVars, mapVars, session, migratedSessionCache, peerSessionsCache, inflight>>

\* the calls: from the user's PN (of device 0 or of its last device) to its
\* LID, and one call each with a source that is no PN and a target that is no LID
MigrateCalls ==
    {[from |-> PnJid(U), to |-> Jid(L, 1, "lid")],
     [from |-> Jid(U, MaxDevice, "s.whatsapp.net"), to |-> LidJid(L)],
     [from |-> LidJid(L), to |-> LidJid(L)],
     [from |-> PnJid(U), to |-> PnJid(U)]}

\* the devices of the user with an open (a stored) session under "<user>.<device>"
OpenPnDevices(sessions)   == {d \in Devices : haveOpenSession(sessions[Addr(U, WHATSAPP, d)])}
StoredPnDevices(sessions) == {d \in Devices : sessions[Addr(U, WHATSAPP, d)] # NoSession}

MigrateSession ==
    \E call \in MigrateCalls :
        \E r \in {migrateSession(call.from, call.to, session, deviceList, migratedSessionCache)} :
            /\ session' = r.sessions
            /\ migratedSessionCache' = r.cache
            /\ last' = [op |-> "migrateSession", from |-> call.from, to |-> call.to,
                        ret |-> r.ret, counts |-> r.counts]
            /\ UNCHANGED <<sockVars, ttlVars, relayVars, mapVars, deviceList, peerSessionsCache, inflight>>

\* time passes beyond an entry's expiration in the migrated-session cache
MigratedCacheExpire ==
    \E k \in migratedSessionCache :
        /\ migratedSessionCache' = migratedSessionCache \ {k}
        /\ last' = NoCall
        /\ UNCHANGED <<sockVars, ttlVars, relayVars, mapVars, session, deviceList, peerSessionsCache, inflight>>

Next ==
    \/ InjectE2ESession
    \/ CloseOpenSession
    \/ StoreDeviceList
    \/ MigrateSession
    \/ MigratedCacheExpire

Spec == Init /\ [][Next]_vars

---------------------------------------------------------------------------
(* migrateSession step by step: every await is a step, the key store may    *)
(* reject a write and the process may stop at any step                      *)

\* the writes of the session updates: one keys.set with the whole batch
WriteBatchesSplit(updates) ==
    <<{u \in updates : u.val = NoSession}, {u \in updates : u.val # NoSession}>>
WriteBatches(updates) == <<updates>>

StepDevices == 0..MaxStepDevice

StepCalls ==
    {[from |-> PnJid(U), to |-> Jid(L, 1, "lid")],
     [from |-> Jid(U, MaxStepDevice, "s.whatsapp.net"), to |-> LidJid(L)]}

\* a prekey bundle is injected for a device, at any time
StepInjectE2ESession ==
    \E d \in StepDevices :
        \E r \in {injectE2ESession(MigrationJid(U, d), session, lidMapping,
                                    mappingCache, NoResolver)} :
            /\ session' = r.sessions
            /\ lidMapping' = r.store
            /\ mappingCache' = r.cache
            /\ last' = NoCall
            /\ UNCHANGED <<sockVars, ttlVars, relayVars, deviceList, migratedSessionCache, peerSessionsCache, inflight>>

\* a device list is persisted, at any time
StepStoreDeviceList ==
    \E k \in StepDevices :
        /\ deviceList' = [deviceList EXCEPT ![U] = 0..k]
        /\ last' = NoCall
        /\ UNCHANGED <<sockVars, ttlVars, relayVars, mapVars, session, migratedSessionCache, peerSessionsCache, inflight>>

\* a migrateSession call in progress; txn: the key store has transaction
\* capability, so a set inside the transaction is buffered until the commit
MigCall(call, txn) ==
    [op |-> "migrateSession", pc |-> "list", from |-> call.from, to |-> call.to,
     txn |-> txn, devs |-> {}, ops |-> {}, updates |-> {}, batches |-> <<>>,
     buffer |-> {}, counts |-> Counts(0, 0, 0)]

Running(pc) == inflight # <<>> /\ inflight[1].pc = pc

\* the call returns (or throws): `last` gets its result
Finish(ret, counts) ==
    /\ inflight' = <<>>
    /\ last' = [op |-> "migrateSession", from |-> inflight[1].from,
                to |-> inflight[1].to, ret |-> ret, counts |-> counts]

\* lines 181-192: the arguments are checked and the device list is asked for
MigrateStart ==
    /\ inflight = <<>>
    /\ \E call \in StepCalls, txn \in BOOLEAN :
           inflight' = <<MigCall(call, txn)>>
    /\ last' = NoCall
    /\ UNCHANGED <<sockVars, ttlVars, relayVars, mapVars, session, deviceList, migratedSessionCache, peerSessionsCache>>

\* lines 192-206: the device list arrives, the marked devices are dropped
\* and the sessions of the others are asked for
MigrateGotList ==
    /\ Running("list")
    /\ IF deviceList[U] = {}
       THEN Finish("ok", Counts(0, 0, 0))
       ELSE /\ inflight' = <<[inflight[1] EXCEPT
                   !.pc = "sessions",
                   !.devs = UncachedDevices(inflight[1].from, deviceList[U],
                                            migratedSessionCache)]>>
            /\ last' = NoCall
    /\ UNCHANGED <<sockVars, ttlVars, relayVars, mapVars, session, deviceList, migratedSessionCache, peerSessionsCache>>

\* lines 206-236: the stored sessions arrive, the transaction begins, the
\* operations are built and the PN sessions are asked for
MigrateGotSessions ==
    /\ Running("sessions")
    /\ inflight' = <<[inflight[1] EXCEPT
           !.pc = "pnSessions",
           !.ops = {MigrationOp(U, d, inflight[1].to) :
                       d \in MigrationDevices(U, inflight[1].devs, session)}]>>
    /\ last' = NoCall
    /\ UNCHANGED <<sockVars, ttlVars, relayVars, mapVars, session, deviceList, migratedSessionCache, peerSessionsCache>>

\* lines 236-254: the PN sessions arrive and the updates are built; with no
\* update the call returns
MigrateGotPnSessions ==
    /\ Running("pnSessions")
    /\ \E mig \in {MigratedOps(inflight[1].ops, session)} :
         \E counts \in {Counts(Cardinality(mig),
                               Cardinality(inflight[1].ops) - Cardinality(mig),
                               Cardinality(inflight[1].ops))} :
           IF mig = {}
           THEN Finish("ok", counts)
           ELSE /\ inflight' = <<[inflight[1] EXCEPT
                       !.pc = "set",
                       !.updates = SessionUpdates(mig, session),
                       !.batches = WriteBatches(SessionUpdates(mig, session)),
                       !.counts = counts]>>
                /\ last' = NoCall
    /\ UNCHANGED <<sockVars, ttlVars, relayVars, mapVars, session, deviceList, migratedSessionCache, peerSessionsCache>>

\* line 254: a keys.set resolves: the batch is in the key store, or in the
\* transaction's buffer
MigrateSetResolved ==
    /\ Running("set")
    /\ inflight' = <<[inflight[1] EXCEPT
           !.pc = IF Len(inflight[1].batches) = 1 THEN "mark" ELSE "set",
           !.batches = Tail(inflight[1].batches),
           !.buffer = IF inflight[1].txn
                      THEN inflight[1].buffer \cup Head(inflight[1].batches)
                      ELSE {}]>>
    /\ session' = IF inflight[1].txn THEN session
                  ELSE SessionSet(session, Head(inflight[1].batches))
    /\ last' = NoCall
    /\ UNCHANGED <<sockVars, ttlVars, relayVars, mapVars, deviceList, migratedSessionCache, peerSessionsCache>>

\* the devices marked after the write: those with a stored LID session
MarkedOps(ops, updates) ==
    {op \in ops : \E u \in updates : u.addr = op.toAddr /\ u.val # NoSession}

\* lines 255-262: the migrated devices are marked in the cache and the
\* transaction's work returns
MigrateMark ==
    /\ Running("mark")
    /\ migratedSessionCache' = migratedSessionCache \cup
           {MigKey(op.user, op.deviceId) :
               op \in MarkedOps(inflight[1].ops, inflight[1].updates)}
    /\ IF inflight[1].txn
       THEN /\ inflight' = <<[inflight[1] EXCEPT !.pc = "commit"]>>
            /\ last' = NoCall
       ELSE Finish("ok", inflight[1].counts)
    /\ UNCHANGED <<sockVars, ttlVars, relayVars, mapVars, session, deviceList, peerSessionsCache>>

\* the transaction commits its buffer in one write and the call returns
MigrateCommit ==
    /\ Running("commit")
    /\ session' = SessionSet(session, inflight[1].buffer)
    /\ Finish("ok", inflight[1].counts)
    /\ UNCHANGED <<sockVars, ttlVars, relayVars, mapVars, deviceList, migratedSessionCache, peerSessionsCache>>

\* the key store rejects the pending set or commit: the call throws and
\* nothing of the rejected write is stored
MigrateWriteFails ==
    /\ Running("set") \/ Running("commit")
    /\ Finish("throw", Counts(0, 0, 0))
    /\ UNCHANGED <<sockVars, ttlVars, relayVars, mapVars, session, deviceList, migratedSessionCache, peerSessionsCache>>

\* the process stops: the call and the caches in memory are gone, the key
\* store stays as it is
Crash ==
    /\ inflight # <<>>
    /\ inflight' = <<>>
    /\ migratedSessionCache' = {}
    /\ mappingCache' = [k \in CacheKeys |-> Null]
    /\ peerSessionsCache' = [a \in SessAddrs |-> "none"]
    /\ userDevicesCache' = [u \in AllUsers |-> <<>>]
    /\ last' = [op |-> "crash", pc |-> inflight[1].pc]
    /\ UNCHANGED <<sockVars, ttlVars, lidMapping, session, deviceList, senderKeyMemory>>

NextMigrateSteps ==
    \/ StepInjectE2ESession
    \/ StepStoreDeviceList
    \/ MigrateStart
    \/ MigrateGotList
    \/ MigrateGotSessions
    \/ MigrateGotPnSessions
    \/ MigrateSetResolved
    \/ MigrateMark
    \/ MigrateCommit
    \/ MigrateWriteFails
    \/ Crash

SpecMigrateSteps == Init /\ [][NextMigrateSteps]_vars

---------------------------------------------------------------------------
(* Claims on migrateSession *)

\* a step that is a completed migrateSession(pnJid, lidJid): `last` in the
\* next state holds its arguments and result
MigrationStep ==
    /\ last'.op = "migrateSession" /\ last'.ret = "ok"
    /\ isPnUser(last'.from) /\ isLidUser(last'.to)

\* the source device of the call and the devices the call looks at
SourceDevice(call) == DeviceOr0(call.from.device)
ListedDevices(call, lists) == lists[U] \cup {SourceDevice(call)}

\* device d has no PN-addressed session and a LID-addressed one
MigratedTo(sessions, d) ==
    /\ sessions[Addr(U, WHATSAPP, d)] = NoSession
    /\ sessions[Addr(L, LID, d)] # NoSession

\* C3 as stated: every device of the PN user whose PN-addressed session was
\* open before a completed migrateSession has no PN-addressed session and a
\* LID-addressed session after it, and the returned migrated count is the
\* number of open PN-addressed sessions of the user before the call.
C3_EveryOpenSessionMigrated ==
    [][MigrationStep =>
        /\ \A d \in OpenPnDevices(session) : MigratedTo(session', d)
        /\ last'.counts.migrated = Cardinality(OpenPnDevices(session))]_vars

\* the devices a call can migrate: listed or the source device, a device list
\* being persisted, not marked in the migrated-session cache, session open
MigratableDevices(call, sessions, lists, cache) ==
    IF lists[U] = {} THEN {}
    ELSE {d \in ListedDevices(call, lists) :
             /\ MigKey(U, d) \notin cache
             /\ haveOpenSession(sessions[Addr(U, WHATSAPP, d)])}

\* C3 (amended): after a completed migrateSession every device of the
\* persisted device list (the source device included) that was not marked
\* in the migrated-session cache and whose PN-addressed session was open has
\* no PN-addressed session and a LID-addressed one, the sessions of all
\* other devices are as before, and the migrated count is the number of
\* those devices (0 when no device list is persisted).
C3_ListedOpenSessionsMigrated ==
    [][MigrationStep =>
        /\ \A d \in MigratableDevices(last', session, deviceList, migratedSessionCache) :
               /\ MigratedTo(session', d)
               /\ session'[Addr(L, LID, d)] = session[Addr(U, WHATSAPP, d)]
        /\ \A d \in Devices \ MigratableDevices(last', session, deviceList, migratedSessionCache) :
               /\ session'[Addr(U, WHATSAPP, d)] = session[Addr(U, WHATSAPP, d)]
               /\ session'[Addr(L, LID, d)] = session[Addr(L, LID, d)]
        /\ last'.counts.migrated =
               Cardinality(MigratableDevices(last', session, deviceList, migratedSessionCache))]_vars

\* C3 witness: a call has moved the open sessions of two devices and left
\* the open session of an unlisted device in place
C3_Witness ==
    /\ last.op = "migrateSession" /\ last.counts.migrated = 2
    /\ MigratedTo(session, 0) /\ MigratedTo(session, 1)
    /\ haveOpenSession(session[Addr(L, LID, 1)])
    /\ haveOpenSession(session[Addr(U, WHATSAPP, 2)])
    /\ deviceList[U] = {0, 1}

\* the scenario of the claim: list [0,1,2], nothing marked, sessions open for
\* devices 0 and 2 only, called with the user's PN jid
ScenarioPre ==
    /\ deviceList[U] = {0, 1, 2} /\ migratedSessionCache = {}
    /\ OpenPnDevices(session) = {0, 2}
    /\ last'.from = PnJid(U)

CountedDevices(call, sessions, lists, cache) ==
    {d \in ListedDevices(call, lists) :
        /\ MigKey(U, d) \notin cache
        /\ sessions[Addr(U, WHATSAPP, d)] # NoSession}

---------------------------------------------------------------------------
(* Claims on the steps of migrateSession *)

\* the LID session of device d is in the write that has resolved: in the key
\* store, or in the buffer of the transaction
LidSessionWritten(call, sessions, d) ==
    /\ call.batches = <<>>
    /\ IF call.txn
       THEN \E u \in call.buffer : u.addr = Addr(L, LID, d) /\ u.val # NoSession
       ELSE sessions[Addr(L, LID, d)] # NoSession

\* C5: migrateSession applies its session changes in one key-store set: no
\* step, a rejected write or a stop of the process at any step included,
\* deletes a device's PN-addressed session and leaves its LID-addressed
\* session absent, a stored LID-addressed session stays, and a device is
\* marked in the migrated-session cache only by the step that follows the
\* resolved write of its LID-addressed session.
C5_SingleBatchThenMark ==
    [][/\ \A d \in StepDevices :
              /\ (session[Addr(U, WHATSAPP, d)] # NoSession
                    /\ session'[Addr(U, WHATSAPP, d)] = NoSession)
                 => session'[Addr(L, LID, d)] # NoSession
              /\ session[Addr(L, LID, d)] # NoSession
                 => session'[Addr(L, LID, d)] # NoSession
       /\ \A k \in migratedSessionCache' \ migratedSessionCache :
              /\ Running("mark")
              /\ LidSessionWritten(inflight[1], session, k.device)]_vars

\* C5 witness: the process stopped between the resolved write and the
\* marking: the session of device 0 is moved and nothing is marked
C5_Witness ==
    /\ last.op = "crash" /\ last.pc = "mark"
    /\ MigratedTo(session, 0)
    /\ migratedSessionCache = {}

---------------------------------------------------------------------------
(* The session asserter and the repository on device 0 of two PN users,    *)
(* the first with a LID                                                    *)

\* jids per assertSessions or deleteSession call
MaxJids == 2

AssertJidOrder == <<PnJid(U), LidJid(L), PnJid("p2")>>
AssertJids     == {AssertJidOrder[i] : i \in 1..Len(AssertJidOrder)}

\* the jid list of a call: no duplicates, one order per set
SeqOfSet(S) == SelectSeq(AssertJidOrder, LAMBDA jid : jid \in S)
JidSets == {S \in SUBSET AssertJids : S # {} /\ Cardinality(S) <= MaxJids}

\* the server knows the LID of the first user, or of nobody
AssertKnowledge == {NoResolver, [u \in PnUsers |-> IF u = U THEN L ELSE Null]}

AssertSessions ==
    \E S \in JidSets, force \in BOOLEAN, known \in AssertKnowledge,
       served \in SUBSET {LidJid(L)} :
        \E r \in {assertSessions(SeqOfSet(S), force, session, lidMapping, mappingCache,
                                 peerSessionsCache, known, served)} :
            /\ session' = r.sessions
            /\ lidMapping' = r.store
            /\ mappingCache' = r.cache
            /\ peerSessionsCache' = r.peer
            /\ last' = [op |-> "assertSessions", jids |-> S, force |-> force,
                        ret |-> r.ret, fetched |-> r.fetched,
                        fetch |-> r.fetch, wire |-> r.wire]
            /\ UNCHANGED <<sockVars, ttlVars, relayVars, deviceList, migratedSessionCache, inflight>>

DeleteSession ==
    \E S \in JidSets :
        /\ session' = deleteSession(S, session)
        /\ last' = [op |-> "deleteSession", jids |-> S]
        /\ UNCHANGED <<sockVars, ttlVars, relayVars, mapVars, deviceList, migratedSessionCache, peerSessionsCache, inflight>>

\* the LID of the first user is learnt and stored
StoreUserMapping ==
    \E r \in {storeLIDPNMappings(<<[lid |-> LidJid(L), pn |-> PnJid(U)]>>,
                                 lidMapping, mappingCache)} :
        /\ lidMapping' = r.store
        /\ mappingCache' = r.cache
        /\ last' = NoCall
        /\ UNCHANGED <<sockVars, ttlVars, relayVars, sessVars>>

\* time passes beyond the TTL of an entry of peerSessionsCache
PeerCacheExpire ==
    \E a \in DOMAIN peerSessionsCache :
        /\ peerSessionsCache[a] # "none"
        /\ peerSessionsCache' = [peerSessionsCache EXCEPT ![a] = "none"]
        /\ last' = NoCall
        /\ UNCHANGED <<sockVars, ttlVars, relayVars, mapVars, session, deviceList, migratedSessionCache, inflight>>

NextAssert ==
    \/ AssertSessions
    \/ DeleteSession
    \/ StoreUserMapping
    \/ PeerCacheExpire

SpecAssert == Init /\ [][NextAssert]_vars

---------------------------------------------------------------------------
(* The storage binding of the Signal library: loadSession and storeSession *)
(* on addresses of the first user and of its LID                           *)

BindAddrs ==
    {Addr(U, WHATSAPP, 0), Addr(U, HOSTED, HostedDevice), Addr(L, LID, 0)}

LoadSession ==
    \E addr \in BindAddrs, known \in AssertKnowledge :
        \E r \in {loadSession(addr, session, lidMapping, mappingCache, known)} :
            /\ lidMapping' = r.store
            /\ mappingCache' = r.cache
            /\ last' = [op |-> "loadSession", addr |-> addr, ret |-> "ok",
                        sess |-> r.sess]
            /\ UNCHANGED <<sockVars, ttlVars, relayVars, sessVars>>

\* the library stores a record it made for the address
StoreSession ==
    \E addr \in BindAddrs, known \in AssertKnowledge :
      \E val \in {OpenSession(addr)} :
        \E r \in {storeSession(addr, val, session, lidMapping, mappingCache, known)} :
            /\ session' = r.sessions
            /\ lidMapping' = r.store
            /\ mappingCache' = r.cache
            /\ last' = [op |-> "storeSession", addr |-> addr, ret |-> r.ret,
                        sess |-> val]
            /\ UNCHANGED <<sockVars, ttlVars, relayVars, deviceList, migratedSessionCache,
                           peerSessionsCache, inflight>>

NextStorage ==
    \/ LoadSession
    \/ StoreSession
    \/ StoreUserMapping
    \/ MappingCacheExpire

SpecStorage == Init /\ [][NextStorage]_vars

\* the address the binding is to use for addr while the mapping of its user
\* is persisted: the LID address of the same device
BoundAddr(addr, store) ==
    IF addr.domain \in {LID, HOSTED_LID} THEN addr
    ELSE Addr(store[FwdKey(addr.user)],
              IF addr.domain = HOSTED THEN HOSTED_LID ELSE LID, addr.device)

\* a loadSession or storeSession call completes in this step on a LID
\* address or on a PN address whose user has a persisted LID mapping
BoundStep(op) ==
    /\ last'.op = op
    /\ \/ last'.addr.domain \in {LID, HOSTED_LID}
       \/ lidMapping[FwdKey(last'.addr.user)] # Null

\* C23: whenever a LID mapping exists for the PN user, loadSession and
\* storeSession called with the PN address read and write only the
\* LID-addressed session record, never the PN-addressed one; LID addresses
\* are used unchanged.
C23_BindingRedirectsPn ==
    [][/\ BoundStep("loadSession") =>
            last'.sess = session[BoundAddr(last'.addr, lidMapping)]
       /\ BoundStep("storeSession") =>
            /\ last'.ret = "ok"
            /\ session' = [session EXCEPT
                              ![BoundAddr(last'.addr, lidMapping)] = last'.sess]]_vars

\* a record was stored under the PN address before the mapping was learnt,
\* and a later load by the PN address has read the LID-addressed record
C23_Witness ==
    /\ last.op = "loadSession" /\ last.addr.domain = WHATSAPP
    /\ lidMapping[FwdKey(last.addr.user)] # Null
    /\ session[last.addr] # NoSession
    /\ session[BoundAddr(last.addr, lidMapping)] # session[last.addr]
    /\ last.sess = session[BoundAddr(last.addr, lidMapping)]
    /\ last.sess # NoSession

\* a LID is stored in this step for a PN user that had none
MappingLearnt(pn) ==
    lidMapping[FwdKey(pn)] = Null /\ lidMapping'[FwdKey(pn)] # Null

\* C24: learning a mapping never makes an open session unreachable: if
\* validateSession(pnJid).exists is true before a LID is stored for the PN
\* user, it is true afterwards, before any migrateSession has run, and the
\* record loaded for the PN address is the same.
C24_MappingKeepsSessionReachable ==
    [][\A pn \in PnUsers :
          (/\ MappingLearnt(pn)
           /\ validateSession(PnJid(pn), session, lidMapping, mappingCache,
                              NoResolver).exists)
          => /\ validateSession(PnJid(pn), session', lidMapping', mappingCache',
                                NoResolver).exists
             /\ loadSession(jidToSignalProtocolAddress(PnJid(pn)), session',
                            lidMapping', mappingCache', NoResolver).sess
                = loadSession(jidToSignalProtocolAddress(PnJid(pn)), session,
                              lidMapping, mappingCache, NoResolver).sess]_vars

\* sessions stored by the library under PN and LID addresses, and migrations
NextMigrateOver ==
    \/ StoreSession
    \/ StoreDeviceList
    \/ MigrateSession
    \/ MigratedCacheExpire

SpecMigrateOver == Init /\ [][NextMigrateOver]_vars

\* C25: migrateSession never replaces an existing LID-addressed session: a
\* record stored under a LID address before the migration is unchanged
\* after it.
C25_MigrationKeepsLidSession ==
    [][last'.op = "migrateSession" =>
         \A a \in SessAddrs :
            (a.domain \in {LID, HOSTED_LID} /\ session[a] # NoSession)
            => session'[a] = session[a]]_vars

---------------------------------------------------------------------------
(* Claims on assertSessions and deleteSession *)

\* validateSession(jid).exists in the current state
SessionExists(jid) ==
    validateSession(jid, session, lidMapping, mappingCache, NoResolver).exists

\* C6: when assertSessions(jids) has completed without error,
\* validateSession(jid).exists is true for every input jid.
C6_AssertedSessionsExist ==
    (last.op = "assertSessions" /\ last.ret = "ok") =>
        \A jid \in last.jids : SessionExists(jid)

\* C26: peer-sessions cache coherence: in every reachable state, if the
\* peer-sessions cache holds true for the Signal address of a jid then an
\* open session is stored for it (validateSession(jid).exists is true).
C26_PeerCacheCoherent ==
    \A jid \in AssertJids :
        PeerGet(peerSessionsCache, jidToSignalProtocolAddress(jid)) = "true"
        => SessionExists(jid)

\* C27: in assertSessions every jid that requires a fetch is requested in
\* the encrypt-get IQ: a LID jid as itself, a PN jid with a mapping as its
\* LID jid, and a PN jid without a mapping as the original PN jid.
C27_EveryFetchJidRequested ==
    (last.op = "assertSessions" /\ last.fetched) =>
        \A i \in 1..Len(last.fetch) :
           \E jid \in {last.fetch[i]} :
              \E k \in 1..Len(last.wire) :
                 last.wire[k] =
                    IF isLidUser(jid) \/ isHostedLidUser(jid) THEN jid
                    ELSE IF lidMapping[FwdKey(jid.user)] # Null
                    THEN Jid(lidMapping[FwdKey(jid.user)], jid.device, "lid")
                    ELSE jid

\* C7: after deleteSession(jids) has completed, validateSession(jid).exists
\* is false for every jid in jids.
C7_DeletedSessionsGone ==
    last.op = "deleteSession" => \A jid \in last.jids : ~SessionExists(jid)

---------------------------------------------------------------------------
(* Locks: relayMessage runs in the key-store transaction tagged meId, its   *)
(* fan-out takes encryptionMutex per recipient jid, deleteSession and       *)
(* migrateSession run in transactions with their own tags.  A transaction   *)
(* tag is a mutex; a transaction begun inside another one runs directly.    *)

RemoveAt(seq, i) == SubSeq(seq, 1, i - 1) \o SubSeq(seq, i + 1, Len(seq))

Tasks(op) == {i \in 1..Len(inflight) : inflight[i].op = op}

\* keys.transaction(work, tag): the mutex of the tag is held by a call that
\* is inside its transaction
Tag(name, n) == [name |-> name, n |-> n]
TagHeld(tag) ==
    \E i \in 1..Len(inflight) :
        inflight[i].op # "encryptMessage" /\ inflight[i].tag = tag

\* recipients per send
MaxFanout == 2

\* the recipients of one send: device 0 of the peer, addressed by PN or by
\* LID, once or (a device list with duplicates) several times
PeerJids == {PnJid(U), LidJid(L)}
RelayRecipients == {[i \in 1..n |-> jid] : n \in 1..MaxFanout, jid \in PeerJids}

EncryptTask(jid, pc) ==
    [op |-> "encryptMessage", jid |-> jid, pc |-> pc, addr |-> NoAddr, rec |-> NoSession]

\* a prekey bundle is injected for the peer's device, under its PN or LID
PeerInjectE2ESession ==
    \E jid \in PeerJids :
        \E r \in {injectE2ESession(jid, session, lidMapping, mappingCache, NoResolver)} :
            /\ session' = r.sessions
            /\ lidMapping' = r.store
            /\ mappingCache' = r.cache
            /\ last' = NoCall
            /\ UNCHANGED <<sockVars, ttlVars, relayVars, deviceList, migratedSessionCache, peerSessionsCache, inflight>>

\* the device list of the peer, its device 0, is persisted
PeerStoreDeviceList ==
    /\ deviceList' = [deviceList EXCEPT ![U] = {0}]
    /\ last' = NoCall
    /\ UNCHANGED <<sockVars, ttlVars, relayVars, mapVars, session, migratedSessionCache, peerSessionsCache, inflight>>

\* relayMessage enters the transaction tagged meId and starts the fan-out of
\* createParticipantNodes; a retry resend has the participant as its only
\* recipient
RelayMessage ==
    /\ ~TagHeld(Tag("meId", 0))
    /\ \E R \in RelayRecipients, retry \in BOOLEAN :
           /\ retry => Len(R) = 1
           /\ inflight' = inflight
                  \o <<[op |-> "relayMessage", tag |-> Tag("meId", 0), pc |-> "fanout",
                        retry |-> IF retry THEN R[1] ELSE NoJid]>>
                  \o [i \in 1..Len(R) |-> EncryptTask(R[i], "mutex")]
    /\ last' = NoCall
    /\ UNCHANGED <<sockVars, ttlVars, relayVars, mapVars, session, deviceList, migratedSessionCache, peerSessionsCache>>

\* the keyed mutex of a jid is held by a fan-out task past its acquisition
MutexHeld(jid) ==
    \E i \in Tasks("encryptMessage") :
        inflight[i].jid = jid /\ inflight[i].pc \in {"load", "store"}

\* encryptionMutex.mutex(jid, ...) is acquired
EncryptAcquire ==
    \E i \in Tasks("encryptMessage") :
        /\ inflight[i].pc = "mutex"
        /\ ~MutexHeld(inflight[i].jid)
        /\ inflight' = [inflight EXCEPT ![i].pc = "load"]
        /\ last' = NoCall
        /\ UNCHANGED <<sockVars, ttlVars, relayVars, mapVars, session, deviceList, migratedSessionCache, peerSessionsCache>>

\* SessionCipher.encrypt loads the record through signalStorage.loadSession;
\* without an open session it throws
EncryptLoad ==
    \E i \in Tasks("encryptMessage") :
        /\ inflight[i].pc \in {"load", "load-unlocked"}
        /\ \E w \in {resolveLIDSignalAddress(jidToSignalProtocolAddress(inflight[i].jid),
                                            lidMapping, mappingCache, NoResolver)} :
             /\ lidMapping' = w.store
             /\ mappingCache' = w.cache
             /\ IF w.ret = "ok" /\ haveOpenSession(SessionGet(session, w.addr))
                THEN inflight' = [inflight EXCEPT ![i].pc = "store", ![i].addr = w.addr,
                                                  ![i].rec = SessionGet(session, w.addr)]
                ELSE inflight' = RemoveAt(inflight, i)
        /\ last' = NoCall
        /\ UNCHANGED <<sockVars, ttlVars, relayVars, session, deviceList, migratedSessionCache, peerSessionsCache>>

\* SessionCipher.encrypt stores the advanced record and the task is done
EncryptStore ==
    \E i \in Tasks("encryptMessage") :
        /\ inflight[i].pc = "store"
        /\ session' = SessionSet(session, {[addr |-> inflight[i].addr, val |-> inflight[i].rec]})
        /\ inflight' = RemoveAt(inflight, i)
        /\ last' = NoCall
        /\ UNCHANGED <<sockVars, ttlVars, relayVars, mapVars, deviceList, migratedSessionCache, peerSessionsCache>>

\* the fan-out is over: a retry resend encrypts for the participant without
\* the keyed mutex
RelayRetryEncrypt ==
    \E i \in Tasks("relayMessage") :
        /\ inflight[i].pc = "fanout" /\ inflight[i].retry # NoJid
        /\ Tasks("encryptMessage") = {}
        /\ inflight' = [inflight EXCEPT ![i].pc = "retry"]
                           \o <<EncryptTask(inflight[i].retry, "load-unlocked")>>
        /\ last' = NoCall
        /\ UNCHANGED <<sockVars, ttlVars, relayVars, mapVars, session, deviceList, migratedSessionCache, peerSessionsCache>>

\* the encryptions are over: the stanza is sent and the transaction ends
RelayDone ==
    \E i \in Tasks("relayMessage") :
        /\ inflight[i].pc = "retry" \/ inflight[i].retry = NoJid
        /\ Tasks("encryptMessage") = {}
        /\ inflight' = RemoveAt(inflight, i)
        /\ last' = NoCall
        /\ UNCHANGED <<sockVars, ttlVars, relayVars, mapVars, session, deviceList, migratedSessionCache, peerSessionsCache>>

DeleteCalls == {{jid} : jid \in PeerJids}

\* deleteSession enters its transaction, tagged delete-<n>-sessions
DeleteBegin ==
    \E S \in DeleteCalls :
        /\ ~TagHeld(Tag("delete", Cardinality(S)))
        /\ inflight' = Append(inflight, [op |-> "deleteSession",
                                         tag |-> Tag("delete", Cardinality(S)), jids |-> S])
        /\ last' = NoCall
        /\ UNCHANGED <<sockVars, ttlVars, relayVars, mapVars, session, deviceList, migratedSessionCache, peerSessionsCache>>

\* its keys.set resolves and the transaction ends
DeleteSet ==
    \E i \in Tasks("deleteSession") :
        /\ session' = deleteSession(inflight[i].jids, session)
        /\ inflight' = RemoveAt(inflight, i)
        /\ last' = [op |-> "deleteSession", jids |-> inflight[i].jids]
        /\ UNCHANGED <<sockVars, ttlVars, relayVars, mapVars, deviceList, migratedSessionCache, peerSessionsCache>>

\* the operations of a migrateSession call in the current state
MigrationOpsNow(call) ==
    {MigrationOp(U, d, call.to) :
        d \in MigrationDevices(U, UncachedDevices(call.from, deviceList[U],
                                                  migratedSessionCache), session)}

\* migrateSession enters its transaction, tagged migrate-<n>-sessions-<toUser>,
\* and builds the session updates
LockedMigrateBegin ==
    \E call \in {[from |-> PnJid(U), to |-> LidJid(L)]} :
        /\ deviceList[U] # {}
        /\ ~TagHeld(Tag("migrate", Cardinality(MigrationOpsNow(call))))
        /\ MigratedOps(MigrationOpsNow(call), session) # {}
        /\ inflight' = Append(inflight,
               [op |-> "migrateSession",
                tag |-> Tag("migrate", Cardinality(MigrationOpsNow(call))),
                ops |-> MigrationOpsNow(call),
                updates |-> SessionUpdates(MigratedOps(MigrationOpsNow(call), session),
                                           session)])
        /\ last' = NoCall
        /\ UNCHANGED <<sockVars, ttlVars, relayVars, mapVars, session, deviceList, migratedSessionCache, peerSessionsCache>>

\* its keys.set resolves, the devices are marked and the transaction ends
LockedMigrateSet ==
    \E i \in Tasks("migrateSession") :
        /\ session' = SessionSet(session, inflight[i].updates)
        /\ migratedSessionCache' = migratedSessionCache \cup
               {MigKey(op.user, op.deviceId) :
                   op \in MarkedOps(inflight[i].ops, inflight[i].updates)}
        /\ inflight' = RemoveAt(inflight, i)
        /\ last' = NoCall
        /\ UNCHANGED <<sockVars, ttlVars, relayVars, mapVars, deviceList, peerSessionsCache>>

NextLocks ==
    \/ PeerInjectE2ESession
    \/ PeerStoreDeviceList
    \/ StoreUserMapping
    \/ RelayMessage
    \/ EncryptAcquire
    \/ EncryptLoad
    \/ EncryptStore
    \/ RelayRetryEncrypt
    \/ RelayDone
    \/ DeleteBegin
    \/ DeleteSet
    \/ LockedMigrateBegin
    \/ LockedMigrateSet

SpecLocks == Init /\ [][NextLocks]_vars

---------------------------------------------------------------------------
(* Claims on the locks *)

\* the task is between the start and the end of its work on the session
\* stored under addr
ExecutingOn(task, addr) ==
    CASE task.op = "encryptMessage" -> task.pc = "store" /\ task.addr = addr
      [] task.op = "deleteSession" ->
            addr \in {jidToSignalProtocolAddress(jid) : jid \in task.jids}
      [] task.op = "migrateSession" -> \E u \in task.updates : u.addr = addr
      [] OTHER -> FALSE

\* C8: at no time do two Signal session operations (an encryptMessage of
\* relayMessage, a session write of migrateSession or deleteSession)
\* execute on the same session address.
C8_OneOperationPerAddress ==
    \A i, j \in 1..Len(inflight) :
        i # j => \A addr \in SessAddrs :
                    ~(ExecutingOn(inflight[i], addr) /\ ExecutingOn(inflight[j], addr))


---------------------------------------------------------------------------
(* Device directory: getUSyncDevices *)

\* highest regular device id the server lists for a user
MaxRelayDevice == 1

\* creds.me: this client is device MeDevice of the user p2 / l2
MePnUser  == "p2"
MeLidUser == "l2"
MeDevice  == 1
meId  == Jid(MePnUser, MeDevice, "s.whatsapp.net")
meLid == Jid(MeLidUser, MeDevice, "lid")

RECURSIVE Concat(_)
Concat(seqs) == IF seqs = <<>> THEN <<>> ELSE Head(seqs) \o Concat(Tail(seqs))

\* a device of a device list (FullJid) and the same with its wire jid
FullJid(user, device, server) == [user |-> user, device |-> device, server |-> server]
DeviceWithJid(user, device, server, jid) ==
    [user |-> user, device |-> device, server |-> server, jid |-> jid]

\* typeof device === 'number' && device >= 0
isExplicitDevice(jid) == jidDecode(jid).device # Undef

\* the jids that name a device are results as they are
ExplicitDevices(jids) ==
    [i \in 1..Len(SelectSeq(jids, isExplicitDevice)) |->
        DeviceWithJid(SelectSeq(jids, isExplicitDevice)[i].user,
                      SelectSeq(jids, isExplicitDevice)[i].device, Null,
                      SelectSeq(jids, isExplicitDevice)[i])]

\* the others, at user level
jidsWithUser(jids) ==
    [i \in 1..Len(SelectSeq(jids, LAMBDA j : ~isExplicitDevice(j))) |->
        [jid  |-> jidNormalizedUser(SelectSeq(jids, LAMBDA j : ~isExplicitDevice(j))[i]),
         user |-> SelectSeq(jids, LAMBDA j : ~isExplicitDevice(j))[i].user]]

\* devices.map(d => ({...d, jid: jidEncode(d.user, d.server, d.device)}))
WithJid(devices) ==
    [i \in 1..Len(devices) |->
        DeviceWithJid(devices[i].user, devices[i].device, devices[i].server,
                      jidEncode(devices[i].user, devices[i].server, devices[i].device))]

\* the loop over jidsWithUser: a user found in the cache gives its cached
\* devices, the jid of any other is fetched; acc = [devices, toFetch]
RECURSIVE CacheLookup(_, _, _, _)
CacheLookup(jw, useCache, udc, acc) ==
    IF jw = <<>> THEN acc
    ELSE The({ CacheLookup(Tail(jw), useCache, udc, a)
               : a \in {IF useCache /\ udc[Head(jw).user] # <<>>
                        THEN [acc EXCEPT !.devices = @ \o WithJid(udc[Head(jw).user])]
                        ELSE [acc EXCEPT !.toFetch = Append(@, Head(jw).jid)]} })

\* the USync answer: one entry per user asked for, with the LID of a PN user
\* when the server knows it
UsyncList(toFetch) == Unique(toFetch)

LidResults(list, known) ==
    [i \in 1..Len(SelectSeq(list, LAMBDA id : isPnUser(id) /\ known[id.user] # Null)) |->
        [lid |-> LidJid(known[SelectSeq(list, LAMBDA id :
                                  isPnUser(id) /\ known[id.user] # Null)[i].user]),
         pn  |-> SelectSeq(list, LAMBDA id : isPnUser(id) /\ known[id.user] # Null)[i]]]

\* the device ids the server lists for a user: the regular devices and, for
\* the users in hosted, the hosted device
ListedIds(user, hosted) ==
    [i \in 1..(MaxRelayDevice + 1) |-> i - 1]
    \o (IF user \in hosted THEN <<HostedDevice>> ELSE <<>>)

HostedServer(server) == IF server = "lid" THEN "hosted.lid" ELSE "hosted"

isMyUser(user) == user = MePnUser \/ user = MeLidUser

\* extractDeviceJids for one entry of the list; skipOwn: this client's own
\* device is left out
ExtractUser(id, ids, ignoreZeroDevices, skipOwn) ==
    [i \in 1..Len(SelectSeq(ids, LAMBDA d :
                      /\ ~(ignoreZeroDevices /\ d = 0)
                      /\ ~(skipOwn /\ isMyUser(id.user) /\ d = MeDevice))) |->
        The({ FullJid(id.user, d,
                      IF d = HostedDevice THEN HostedServer(id.server) ELSE id.server)
              : d \in {SelectSeq(ids, LAMBDA d :
                          /\ ~(ignoreZeroDevices /\ d = 0)
                          /\ ~(skipOwn /\ isMyUser(id.user) /\ d = MeDevice))[i]} })]

\* deviceMap as the sequence of [key, value], one per user of the list
DeviceMap(list, ignoreZeroDevices, env) ==
    [i \in 1..Len(list) |->
        [key   |-> list[i].user,
         value |-> ExtractUser(list[i], ListedIds(list[i].user, env.hosted),
                               ignoreZeroDevices, env.skipOwn)]]

DeviceMapHas(deviceMap, user) == \E i \in 1..Len(deviceMap) : deviceMap[i].key = user
DeviceMapGet(deviceMap, user) ==
    deviceMap[CHOOSE i \in 1..Len(deviceMap) : deviceMap[i].key = user].value

\* userDevicesCache.mset that sets nothing
CacheDevicesNone(udc, deviceMap) == udc

\* userDevicesCache.mset(Object.entries(deviceMap))
CacheDevices(udc, deviceMap) ==
    [u \in DOMAIN udc |->
        IF DeviceMapHas(deviceMap, u) THEN DeviceMapGet(deviceMap, u) ELSE udc[u]]

\* keys.set({'device-list': userDeviceUpdates}): the lists that are not empty
StoreDeviceLists(lists, deviceMap) ==
    [u \in DOMAIN lists |->
        IF DeviceMapHas(deviceMap, u) /\ DeviceMapGet(deviceMap, u) # <<>>
        THEN {DeviceMapGet(deviceMap, u)[i].device : i \in 1..Len(DeviceMapGet(deviceMap, u))}
        ELSE lists[u]]


\* lines 299-386: the fetch list is asked of the server; the LIDs it returns
\* are stored and their sessions refreshed, the devices are pushed, cached
\* and persisted; st = [sessions, store, cache, peer, udc, lists]
LidsAsserted(lr, st, env) ==
    IF lr = <<>> THEN st
    ELSE The({ The({
            [st EXCEPT !.sessions = a.sessions, !.store = a.store,
                       !.cache = a.cache, !.peer = a.peer]
            : a \in {assertSessions([i \in 1..Len(lr) |-> lr[i].lid], TRUE, st.sessions,
                                    m.store, m.cache, st.peer, env.known, env.served)} })
         : m \in {storeLIDPNMappings(lr, st.store, st.cache)} })

UsyncFetch(look, ignoreZeroDevices, st, env) ==
    IF look.toFetch = <<>>
    THEN [devices |-> look.devices, sessions |-> st.sessions, store |-> st.store,
          cache |-> st.cache, peer |-> st.peer, udc |-> st.udc, lists |-> st.lists]
    ELSE The({ The({
            [devices  |-> look.devices
                          \o Concat([i \in 1..Len(dm) |-> WithJid(dm[i].value)]),
             sessions |-> m.sessions, store |-> m.store, cache |-> m.cache,
             peer     |-> m.peer,
             udc      |-> CacheDevices(st.udc, dm),
             lists    |-> StoreDeviceLists(st.lists, dm)]
            : m \in {LidsAsserted(LidResults(UsyncList(look.toFetch), env.known), st, env)} })
         : dm \in {DeviceMap(UsyncList(look.toFetch), ignoreZeroDevices, env)} })

\* the whole call: [devices, sessions, store, cache, peer, udc, lists]
getUSyncDevices(jids, useCache, ignoreZeroDevices, st, env) ==
    The({ UsyncFetch(look, ignoreZeroDevices, st, env)
          : look \in {CacheLookup(jidsWithUser(jids), useCache, st.udc,
                                  [devices |-> ExplicitDevices(jids), toFetch |-> <<>>])} })

---------------------------------------------------------------------------
(* Encryption fan-out: encryptMessage, createParticipantNodes *)

\* SessionCipher.encrypt on the session of the jid's address: it throws
\* when the address has no open session; [ret, store, cache]
encryptMessage(jid, sessions, store, cache, known) ==
    IF jidToSignalProtocolAddress(jid) = NoAddr
    THEN [ret |-> "throw", store |-> store, cache |-> cache]
    ELSE The({
        [ret   |-> IF w.ret = "ok" /\ haveOpenSession(SessionGet(sessions, w.addr))
                   THEN "ok" ELSE "throw",
         store |-> w.store, cache |-> w.cache]
        : w \in {resolveLIDSignalAddress(jidToSignalProtocolAddress(jid),
                                         store, cache, known)} })

\* one <to jid=...> node per recipient, in the order of the recipients;
\* acc = [ret, nodes, store, cache], a node is kept as its jid
RECURSIVE createParticipantNodes(_, _, _, _)
createParticipantNodes(recipientJids, sessions, known, acc) ==
    IF recipientJids = <<>> THEN acc
    ELSE The({ createParticipantNodes(Tail(recipientJids), sessions, known,
                  [ret   |-> IF e.ret = "ok" THEN acc.ret ELSE "throw",
                   nodes |-> IF e.ret = "ok" THEN Append(acc.nodes, Head(recipientJids))
                             ELSE acc.nodes,
                   store |-> e.store, cache |-> e.cache])
               : e \in {encryptMessage(Head(recipientJids), sessions,
                                       acc.store, acc.cache, known)} })


---------------------------------------------------------------------------
(* Relay pipeline: relayMessage, the group path and the direct path *)

GroupJid(g) == Jid(g, Undef, "g.us")
isJidGroup(jid) == jid.server = "g.us"

JidsOf(devices) == [i \in 1..Len(devices) |-> devices[i].jid]

\* the test of the senderKeyRecipients loop; senderKeyMap is the set of the
\* device jids marked true
SenderKeyIncludedAlways(device, senderKeyMap, participant) ==
    /\ ~isHostedLidUser(device.jid)
    /\ ~isHostedPnUser(device.jid)
    /\ device.device # HostedDevice

SenderKeyIncluded(device, senderKeyMap, participant) ==
    /\ device.jid \notin senderKeyMap \/ participant
    /\ ~isHostedLidUser(device.jid)
    /\ ~isHostedPnUser(device.jid)
    /\ device.device # HostedDevice

\* senderKeyMap[deviceJid] = true
MarkSenderKeyNever(senderKeyMap, deviceJid) == senderKeyMap

MarkSenderKey(senderKeyMap, deviceJid) == senderKeyMap \cup {deviceJid}

\* the loop: a device that passes is a recipient and is marked in the map;
\* acc = [recipients, senderKeyMap]
RECURSIVE SenderKeyRecipients(_, _, _)
SenderKeyRecipients(devices, participant, acc) ==
    IF devices = <<>> THEN acc
    ELSE The({ SenderKeyRecipients(Tail(devices), participant, a)
               : a \in {IF SenderKeyIncluded(Head(devices), acc.senderKeyMap, participant)
                        THEN [recipients   |-> Append(acc.recipients, Head(devices).jid),
                              senderKeyMap |-> MarkSenderKey(acc.senderKeyMap,
                                                             Head(devices).jid)]
                        ELSE acc} })

\* the result of a send: ret, the jids of the <to> nodes of the stanza, the
\* devices enumerated, the sender-key map and the state left behind
RelayResult(ret, to, g, a, e, senderKeyMap) ==
    [ret |-> ret, to |-> to, devices |-> g.devices, senderKeyMap |-> senderKeyMap,
     sessions |-> a.sessions, peer |-> a.peer, store |-> e.store, cache |-> e.cache,
     udc |-> g.udc, lists |-> g.lists]

\* lines 738-755: sessions are asserted for the recipients and the
\* sender-key distribution message is encrypted to each
GroupFanout(g, sk, env) ==
    IF sk.recipients = <<>>
    THEN RelayResult("ok", <<>>, g, g, g, sk.senderKeyMap)
    ELSE The({
        IF a.ret = "throw" THEN RelayResult("throw", <<>>, g, a, a, sk.senderKeyMap)
        ELSE The({ RelayResult(e.ret, e.nodes, g, a, e, sk.senderKeyMap)
                   : e \in {createParticipantNodes(sk.recipients, a.sessions, env.known,
                               [ret |-> "ok", nodes |-> <<>>,
                                store |-> a.store, cache |-> a.cache])} })
        : a \in {assertSessions(sk.recipients, FALSE, g.sessions, g.store, g.cache,
                                g.peer, env.known, env.served)} })

\* lines 659-763: participantsList is the ids of the group metadata
GroupSend(participantsList, useUserDevicesCache, senderKeyMap, st, env) ==
    The({ GroupFanout(g, SenderKeyRecipients(g.devices, FALSE,
                            [recipients |-> <<>>, senderKeyMap |-> senderKeyMap]), env)
          : g \in {getUSyncDevices(participantsList, useUserDevicesCache, FALSE, st, env)} })

isExactSenderDevice(jid) == jid = meId \/ jid = meLid

\* lines 826-843
allRecipients(devices) ==
    JidsOf(SelectSeq(devices, LAMBDA d : ~isExactSenderDevice(d.jid)))
meRecipients(devices) ==
    JidsOf(SelectSeq(devices, LAMBDA d : ~isExactSenderDevice(d.jid) /\ isMyUser(d.user)))
otherRecipients(devices) ==
    JidsOf(SelectSeq(devices, LAMBDA d : ~isExactSenderDevice(d.jid) /\ ~isMyUser(d.user)))

\* lines 801-804
senderIdentity(jid) == IF isLidUser(jid) THEN LidJid(MeLidUser) ELSE PnJid(MePnUser)

\* lines 845-856
DirectFanout(g, env) ==
    The({
        IF a.ret = "throw" THEN RelayResult("throw", <<>>, g, a, a, {})
        ELSE The({ The({
                RelayResult(IF me.ret = "ok" THEN ot.ret ELSE "throw",
                            me.nodes \o ot.nodes, g, a, ot, {})
                : ot \in {createParticipantNodes(otherRecipients(g.devices), a.sessions,
                             env.known, [ret |-> "ok", nodes |-> <<>>,
                                         store |-> me.store, cache |-> me.cache])} })
             : me \in {createParticipantNodes(meRecipients(g.devices), a.sessions,
                          env.known, [ret |-> "ok", nodes |-> <<>>,
                                      store |-> a.store, cache |-> a.cache])} })
        : a \in {assertSessions(allRecipients(g.devices), FALSE, g.sessions, g.store,
                                g.cache, g.peer, env.known, env.served)} })

\* lines 764-863, no participant and no peer category
DirectSend(jid, st, env) ==
    The({ DirectFanout(g, env)
          : g \in {getUSyncDevices(<<senderIdentity(jid), jid>>, TRUE, FALSE, st, env)} })

\* relayMessage(jid, message, {useUserDevicesCache}) without participant;
\* metadata: the participant ids of the group
relayMessage(jid, metadata, useUserDevicesCache, senderKeyMap, st, env) ==
    IF isJidGroup(jid)
    THEN GroupSend(metadata, useUserDevicesCache, senderKeyMap, st, env)
    ELSE DirectSend(jid, st, env)


---------------------------------------------------------------------------
(* Sends to the peer, to the own user and to a group *)

\* the chats of a direct send: the peer by PN and by LID, the own user by LID
DirectJids == {PnJid(U), LidJid(L), LidJid(MeLidUser)}

\* the participant ids of the group, in LID addressing mode
GroupMetadata == {<<LidJid(L), LidJid(MeLidUser)>>}

RelayCalls ==
    {[jid |-> j, metadata |-> <<>>, useUserDevicesCache |-> TRUE] : j \in DirectJids}
    \cup {[jid |-> GroupJid(g), metadata |-> m, useUserDevicesCache |-> c]
          : g \in Groups, m \in GroupMetadata, c \in BOOLEAN}

\* the server knows the LIDs of both users
RelayKnowledge == [u \in PnUsers |-> IF u = U THEN L ELSE MeLidUser]

\* the server has a prekey bundle for every LID device, or for none
RelayBundles ==
    {Jid(u, d, "lid") : u \in LidUsers, d \in {Undef} \cup 1..MaxDevice}
    \cup {Jid(u, HostedDevice, "hosted.lid") : u \in LidUsers}

\* the peer has a hosted device; extractDeviceJids leaves this client's own
\* device out, or not
RelayEnvs ==
    [known : {RelayKnowledge}, served : {RelayBundles, {}},
     hosted : {{U, L}}, skipOwn : BOOLEAN, transport : {"ok"}]

\* sends to a group, with a transport that takes the stanza or throws
GroupCalls == {call \in RelayCalls : isJidGroup(call.jid)}
GroupEnvs ==
    [known : {RelayKnowledge}, served : {RelayBundles, {}},
     hosted : {{U, L}}, skipOwn : {TRUE}, transport : {"ok", "throw"}]

LoadedSenderKeyMap(jid) == IF isJidGroup(jid) THEN senderKeyMemory[jid.user] ELSE {}

\* line 965: the stanza is handed to the transport, which takes it or throws
\* (env.transport)
sendNode(r, env) ==
    IF r.ret = "ok" /\ env.transport = "throw"
    THEN [r EXCEPT !.ret = "throw", !.failed = "sendNode"]
    ELSE [r EXCEPT !.failed = IF r.ret = "ok" THEN "none" ELSE "before"]

\* a transaction that keeps what its closure wrote when the closure throws
transactionNoRollback(ret, before, after) == after

\* keys.transaction(fn, tag): what fn wrote to the key store is committed
\* when fn resolves and dropped when it throws
transaction(ret, before, after) == IF ret = "ok" THEN after ELSE before

\* lines 626-973: the send runs in keys.transaction(..., meId)
Relay(calls, envs) ==
    \E call \in calls, env \in envs :
        \E r \in {sendNode([failed |-> "none"] @@
                            relayMessage(call.jid, call.metadata,
                               call.useUserDevicesCache, LoadedSenderKeyMap(call.jid),
                               [sessions |-> session, store |-> lidMapping,
                                cache |-> mappingCache, peer |-> peerSessionsCache,
                                udc |-> userDevicesCache, lists |-> deviceList], env),
                         env)} :
            /\ mappingCache' = r.cache
            /\ peerSessionsCache' = r.peer
            /\ userDevicesCache' = r.udc
            /\ session' = transaction(r.ret, session, r.sessions)
            /\ lidMapping' = transaction(r.ret, lidMapping, r.store)
            /\ deviceList' = transaction(r.ret, deviceList, r.lists)
            /\ senderKeyMemory' =
                   IF isJidGroup(call.jid)
                   THEN transaction(r.ret, senderKeyMemory,
                            [senderKeyMemory EXCEPT ![call.jid.user] = r.senderKeyMap])
                   ELSE senderKeyMemory
            /\ last' = [op |-> "relayMessage", jid |-> call.jid, ret |-> r.ret,
                        to |-> r.to, failed |-> r.failed,
                        senderKeyMap |-> r.senderKeyMap,
                        devices |-> {[jid |-> r.devices[i].jid, device |-> r.devices[i].device]
                                     : i \in 1..Len(r.devices)}]
            /\ UNCHANGED <<sockVars, ttlVars, migratedSessionCache, inflight>>

RelayCall == Relay(RelayCalls, RelayEnvs)

RelayGroup == Relay(GroupCalls, GroupEnvs)

\* the entries of the user-devices cache reach their TTL
UserDevicesCacheExpire ==
    /\ \E u \in AllUsers : userDevicesCache[u] # <<>>
    /\ userDevicesCache' = [u \in AllUsers |-> <<>>]
    /\ last' = NoCall
    /\ UNCHANGED <<sockVars, ttlVars, mapVars, session, deviceList, migratedSessionCache,
                   peerSessionsCache, senderKeyMemory, inflight>>

NextRelay ==
    \/ RelayCall
    \/ UserDevicesCacheExpire

SpecRelay == Init /\ [][NextRelay]_vars

NextGroup ==
    \/ RelayGroup
    \/ UserDevicesCacheExpire
    \/ DeleteSession
    \/ PeerCacheExpire

SpecGroup == Init /\ [][NextGroup]_vars


---------------------------------------------------------------------------
(* Claims on relayMessage *)

ToSet(to) == {to[i] : i \in 1..Len(to)}

\* C9: the stanza of a send holds at most one <to> node per device jid and
\* no node for this client's own device (creds.me.id or creds.me.lid),
\* also when the chat is the own user and when the device lists come from
\* the user-devices cache.
C9_EachRecipientOnce ==
    (last.op = "relayMessage" /\ last.ret = "ok") =>
        /\ \A i, j \in 1..Len(last.to) : last.to[i] = last.to[j] => i = j
        /\ \A i \in 1..Len(last.to) : last.to[i] # meId /\ last.to[i] # meLid

\* a send to a group has handed its stanza to the transport
FanoutStep ==
    last'.op = "relayMessage" /\ isJidGroup(last'.jid) /\ last'.ret = "ok"

\* C10: in a group send without participant, an enumerated device is among
\* the recipients of the sender-key distribution if and only if the
\* sender-key memory loaded for the group did not mark it, its jid is on no
\* hosted server and its device id is not 99.
C10_FanoutIffNotMarked ==
    [][FanoutStep =>
        /\ ToSet(last'.to) \subseteq {d.jid : d \in last'.devices}
        /\ \A d \in last'.devices :
               d.jid \in ToSet(last'.to) <=>
                   /\ d.jid \notin senderKeyMemory[last'.jid.user]
                   /\ ~isHostedLidUser(d.jid) /\ ~isHostedPnUser(d.jid)
                   /\ d.device # HostedDevice]_vars

\* a group send that distributed the sender key to a new device, left out a
\* device marked by an earlier send and left out a hosted device
C10_Witness ==
    /\ last.op = "relayMessage" /\ isJidGroup(last.jid) /\ last.ret = "ok"
    /\ last.to # <<>>
    /\ \E d \in last.devices :
           /\ d.jid \notin ToSet(last.to)
           /\ ~isHostedLidUser(d.jid) /\ d.device # HostedDevice
    /\ \E d \in last.devices : isHostedLidUser(d.jid) /\ d.jid \notin ToSet(last.to)


\* C11: after a successful group send the stored sender-key memory of the
\* group is the memory stored before plus exactly the recipients of this
\* send's sender-key distribution; no entry is removed.
C11_MemoryGrowsByFanout ==
    [][FanoutStep =>
        senderKeyMemory'[last'.jid.user] =
            senderKeyMemory[last'.jid.user] \cup ToSet(last'.to)]_vars

\* a group send that distributed the sender key while the memory already
\* held other devices: the memory holds both afterwards
C11_Witness ==
    /\ last.op = "relayMessage" /\ isJidGroup(last.jid) /\ last.ret = "ok"
    /\ last.to # <<>>
    /\ ToSet(last.to) \subseteq senderKeyMemory[last.jid.user]
    /\ senderKeyMemory[last.jid.user] # ToSet(last.to)

\* a send to a group has thrown: in assertSessions or the encryption
\* (failed = "before") or in sendNode
FailedFanoutStep ==
    last'.op = "relayMessage" /\ isJidGroup(last'.jid) /\ last'.ret = "throw"

\* C28: a device is added to the stored sender-key memory of a group only
\* by a send to that group which handed over a stanza with the device among
\* the recipients of the sender-key distribution; a group send that throws
\* in assertSessions, in the fan-out encryption or in sendNode leaves the
\* stored sender-key memory as it was before the call.
C28_MemoryOnlyAfterHandOver ==
    [][/\ FailedFanoutStep => senderKeyMemory' = senderKeyMemory
       /\ \A g \in Groups :
              \A d \in senderKeyMemory'[g] \ senderKeyMemory[g] :
                  /\ FanoutStep /\ last'.jid = GroupJid(g)
                  /\ d \in ToSet(last'.to)]_vars

\* a group send whose sendNode threw after the sender-key distribution was
\* encrypted to devices and these were marked in the map of the call: the
\* stored memory does not hold them
C28_Witness ==
    /\ last.op = "relayMessage" /\ isJidGroup(last.jid)
    /\ last.ret = "throw" /\ last.failed = "sendNode"
    /\ last.to # <<>>
    /\ ToSet(last.to) \subseteq last.senderKeyMap
    /\ ToSet(last.to) \cap senderKeyMemory[last.jid.user] = {}


---------------------------------------------------------------------------
(* Relay pipeline: retry resend, newsletter, and the stanza *)

\* highest count of a retry receipt
MaxRetryCount == 2

\* options.participant: {jid, count}, or none
NoParticipant == [set |-> FALSE, jid |-> NoJid, count |-> 0]
Participant(jid, count) == [set |-> TRUE, jid |-> jid, count |-> count]

isJidNewsletter(jid) == jid.server = "newsletter"

\* lines 613-624: the device of the participant is the only device
RetryDevices(participant) ==
    <<DeviceWithJid(jidDecode(participant.jid).user, jidDecode(participant.jid).device,
                    Null, participant.jid)>>

\* lines 820-856 with participant set: no device is enumerated, the fan-out
\* runs over the participant's device
RetryFanout(participant, st, env) ==
    DirectFanout([devices |-> RetryDevices(participant), sessions |-> st.sessions,
                  store |-> st.store, cache |-> st.cache, peer |-> st.peer,
                  udc |-> st.udc, lists |-> st.lists], env)

\* lines 865-892: the message is encrypted to the participant
RetryEncrypt(participant, fan, env) ==
    IF fan.ret = "throw" THEN fan
    ELSE The({ [fan EXCEPT !.ret = e.ret, !.store = e.store, !.cache = e.cache]
               : e \in {encryptMessage(participant.jid, fan.sessions, fan.store,
                                       fan.cache, env.known)} })

\* lines 632-653: nothing is read or written on the newsletter path
NewsletterSend(st) ==
    RelayResult("ok", <<>>, [devices |-> <<>>, udc |-> st.udc, lists |-> st.lists],
                st, st, {})

\* the path of a call: [ret, to, devices, senderKeyMap, sessions, peer, store,
\* cache, udc, lists]
RelayPath(call, senderKeyMap, st, env) ==
    IF isJidNewsletter(call.jid) THEN NewsletterSend(st)
    ELSE IF call.participant.set
         THEN RetryEncrypt(call.participant, RetryFanout(call.participant, st, env), env)
         ELSE relayMessage(call.jid, call.metadata, call.useUserDevicesCache,
                           senderKeyMap, st, env)

\* the type of the ciphertext: pkmsg while the session of the jid waits for
\* the peer's first answer (env.prekey)
EncType(jid, env) == IF jid \in env.prekey THEN "pkmsg" ELSE "msg"

\* nodes: count = 0 stands for no count attribute
EncNode(type, count) == [tag |-> "enc", type |-> type, count |-> count, to |-> <<>>]
PlainNode(tag) == [tag |-> tag, type |-> Null, count |-> 0, to |-> <<>>]
ToNodes(to, env) == [i \in 1..Len(to) |-> [jid |-> to[i], type |-> EncType(to[i], env)]]
ParticipantsNode(to, env) ==
    [tag |-> "participants", type |-> Null, count |-> 0, to |-> ToNodes(to, env)]

\* lines 583, 752, 862: retry resends start with the flag set
shouldIncludeDeviceIdentityOnRetry(participant, to, env) == participant.set

shouldIncludeDeviceIdentity(participant, to, env) ==
    participant.set \/ \E i \in 1..Len(to) : EncType(to[i], env) = "pkmsg"

\* lines 635-639
NewsletterContentEncrypted == <<EncNode("msg", 0)>>

NewsletterContent == <<PlainNode("plaintext")>>

\* binaryNodeContent and the nodes pushed after it, lines 757-761, 883-908,
\* 938-946
StanzaContent(call, to, env) ==
    IF isJidNewsletter(call.jid) THEN NewsletterContent
    ELSE (IF isJidGroup(call.jid) /\ ~call.participant.set
          THEN <<EncNode("skmsg", 0)>> ELSE <<>>)
      \o (IF call.participant.set
          THEN <<EncNode(EncType(call.participant.jid, env), call.participant.count)>>
          ELSE <<>>)
      \o (IF to # <<>> THEN <<ParticipantsNode(to, env)>> ELSE <<>>)
      \o (IF shouldIncludeDeviceIdentity(call.participant, to, env)
          THEN <<PlainNode("device-identity")>> ELSE <<>>)

\* extraAttrs after the direct fan-out, lines 858-860
ExtraAttrs(call, to) ==
    IF ~isJidNewsletter(call.jid) /\ (call.participant.set \/ ~isJidGroup(call.jid))
       /\ to # <<>>
    THEN {"phash"} ELSE {}

\* additionalAttributes, lines 613-616 and 699-704
AdditionalAttributes(call) ==
    IF isJidNewsletter(call.jid) THEN {}
    ELSE (IF call.participant.set /\ ~isJidGroup(call.jid) THEN {"device_fanout"} ELSE {})
         \cup (IF isJidGroup(call.jid) /\ ~call.participant.set
               THEN {"addressing_mode"} ELSE {})

\* lines 921-936
StanzaTo(call) ==
    IF call.participant.set /\ ~isJidGroup(call.jid) THEN call.participant.jid ELSE call.jid
StanzaParticipant(call) ==
    IF call.participant.set /\ isJidGroup(call.jid) THEN call.participant.jid ELSE NoJid
StanzaRecipient(call) ==
    IF call.participant.set /\ ~isJidGroup(call.jid)
       /\ areJidsSameUser(call.participant.jid, meId)
    THEN call.jid ELSE NoJid

\* the stanza given to sendNode: the names of its attributes, the addressing
\* attributes and its content, lines 640-649 and 910-919
Stanza(call, to, env) ==
    [attrs |-> {"id", "to", "type"} \cup AdditionalAttributes(call)
               \cup (IF StanzaParticipant(call) # NoJid THEN {"participant"} ELSE {})
               \cup (IF StanzaRecipient(call) # NoJid THEN {"recipient"} ELSE {}),
     to |-> StanzaTo(call), participant |-> StanzaParticipant(call),
     recipient |-> StanzaRecipient(call), content |-> StanzaContent(call, to, env)]


\* the Signal operations a send goes through
SignalOps(call, to) ==
    IF isJidNewsletter(call.jid) THEN {}
    ELSE IF isJidGroup(call.jid) /\ ~call.participant.set
    THEN {"getUSyncDevices", "encryptGroupMessage"}
         \cup (IF to # <<>> THEN {"assertSessions", "encryptMessage"} ELSE {})
    ELSE {"assertSessions"}
         \cup (IF call.participant.set THEN {"encryptMessage"} ELSE {"getUSyncDevices"})
         \cup (IF to # <<>> THEN {"encryptMessage"} ELSE {})

---------------------------------------------------------------------------
(* Sends with their stanzas: direct, group, newsletter and retry resend *)

NewsletterJid == Jid("n1", Undef, "newsletter")

\* the devices a retry receipt comes from: a device of the peer and the
\* sender's own phone, by LID and by PN
RetryTargets ==
    {Jid(L, 1, "lid"), LidJid(MeLidUser), PnJid(MePnUser)}

StanzaCalls ==
    {[jid |-> j, metadata |-> <<>>, useUserDevicesCache |-> TRUE,
      participant |-> NoParticipant] : j \in {LidJid(L), LidJid(MeLidUser), NewsletterJid}}
    \cup {[jid |-> GroupJid(g), metadata |-> m, useUserDevicesCache |-> TRUE,
           participant |-> NoParticipant] : g \in Groups, m \in GroupMetadata}
    \cup {[jid |-> j, metadata |-> <<>>, useUserDevicesCache |-> TRUE,
           participant |-> Participant(t, n)]
          : j \in {LidJid(L)} \cup {GroupJid(g) : g \in Groups},
            t \in RetryTargets, n \in 1..MaxRetryCount}

\* the sessions that wait for the peer's first answer
StanzaEnvs ==
    [known : {RelayKnowledge}, served : {RelayBundles}, hosted : {{}}, skipOwn : {TRUE},
     prekey : {{}, {LidJid(L)}, {LidJid(MeLidUser)}}]

RelayStanza ==
    \E call \in StanzaCalls, env \in StanzaEnvs :
        \E r \in {RelayPath(call, LoadedSenderKeyMap(call.jid),
                            [sessions |-> session, store |-> lidMapping,
                             cache |-> mappingCache, peer |-> peerSessionsCache,
                             udc |-> userDevicesCache, lists |-> deviceList], env)} :
            /\ mappingCache' = r.cache
            /\ peerSessionsCache' = r.peer
            /\ userDevicesCache' = r.udc
            /\ IF r.ret = "ok"
               THEN /\ session' = r.sessions
                    /\ lidMapping' = r.store
                    /\ deviceList' = r.lists
                    /\ senderKeyMemory' =
                           IF isJidGroup(call.jid) /\ ~call.participant.set
                           THEN [senderKeyMemory EXCEPT ![call.jid.user] = r.senderKeyMap]
                           ELSE senderKeyMemory
               ELSE UNCHANGED <<sockVars, ttlVars, session, lidMapping, deviceList, senderKeyMemory>>
            /\ last' = [op |-> "relayMessage", jid |-> call.jid,
                        participant |-> call.participant, ret |-> r.ret, to |-> r.to,
                        prekey |-> env.prekey,
                        ops |-> SignalOps(call, r.to),
                        sent |-> IF r.ret = "ok" THEN <<Stanza(call, r.to, env)>> ELSE <<>>]
            /\ UNCHANGED <<sockVars, ttlVars, migratedSessionCache, inflight>>

NextStanza ==
    \/ RelayStanza
    \/ UserDevicesCacheExpire

SpecStanza == Init /\ [][NextStanza]_vars


---------------------------------------------------------------------------
(* Claims on the stanza *)

Sent == last.op = "relayMessage" /\ last.sent # <<>>
RetrySent == Sent /\ last.participant.set

TopEncs(stanza) ==
    {i \in 1..Len(stanza.content) : stanza.content[i].tag = "enc"}
Tags(stanza) == {stanza.content[i].tag : i \in 1..Len(stanza.content)}

\* the <enc> nodes of the <to> nodes of the stanza, as [jid, type]
NestedEncs(stanza) ==
    UNION {ToSet(stanza.content[i].to) : i \in 1..Len(stanza.content)}

\* C12: the stanza of a retry resend holds exactly one <enc> node, with
\* count = participant.count, and no <participants> fan-out.
C12_RetryHasOneEnc ==
    RetrySent =>
        /\ Cardinality(TopEncs(last.sent[1])) = 1
        /\ \A i \in TopEncs(last.sent[1]) :
               last.sent[1].content[i].count = last.participant.count
        /\ NestedEncs(last.sent[1]) = {}
        /\ "participants" \notin Tags(last.sent[1])

\* C13: a retry resend to a group has to = group and participant = the
\* target; to a device of the sender's own user (by PN or by LID) it has
\* to = the target and recipient = the destination; to any other device it
\* has to = the target and neither participant nor recipient.
C13_RetryAddressing ==
    RetrySent =>
        IF isJidGroup(last.jid)
        THEN /\ last.sent[1].to = last.jid
             /\ last.sent[1].participant = last.participant.jid
        ELSE IF isMyUser(last.participant.jid.user)
        THEN /\ last.sent[1].to = last.participant.jid
             /\ last.sent[1].recipient = last.jid
        ELSE /\ last.sent[1].to = last.participant.jid
             /\ last.sent[1].participant = NoJid
             /\ last.sent[1].recipient = NoJid

DirectSent ==
    /\ Sent /\ ~last.participant.set
    /\ ~isJidGroup(last.jid) /\ ~isJidNewsletter(last.jid)

\* C14: the stanza of a direct send carries the phash attribute if and only
\* if the fan-out has at least one recipient.
C14_PhashIffRecipients ==
    DirectSent => ("phash" \in last.sent[1].attrs <=> last.to # <<>>)

\* C15: when a pairwise encryption of a send returned a pkmsg, the stanza
\* holds a <device-identity> node.
C15_PkmsgHasDeviceIdentity ==
    (Sent /\ \/ \E e \in NestedEncs(last.sent[1]) : e.type = "pkmsg"
             \/ \E i \in TopEncs(last.sent[1]) : last.sent[1].content[i].type = "pkmsg")
        => "device-identity" \in Tags(last.sent[1])

\* a send without participant whose fan-out holds a pkmsg, with the node
C15_Witness ==
    /\ Sent /\ ~last.participant.set
    /\ \E e \in NestedEncs(last.sent[1]) : e.type = "pkmsg"
    /\ "device-identity" \in Tags(last.sent[1])

\* the types of the ciphertexts of the pairwise encryptions of a stanza: of
\* the <to> nodes and of the <enc> node of a retry resend
PairwiseTypes(stanza) ==
    {e.type : e \in NestedEncs(stanza)}
    \cup {stanza.content[i].type : i \in {j \in TopEncs(stanza) :
                                             stanza.content[j].type # "skmsg"}}

\* C30: a stanza handed to the transport holds a <device-identity> node
\* only if a pairwise encryption of the send returned a pkmsg, in a direct
\* send, a group send and a retry resend alike.
C30_DeviceIdentityOnlyWithPkmsg ==
    (Sent /\ "device-identity" \in Tags(last.sent[1]))
        => "pkmsg" \in PairwiseTypes(last.sent[1])

NewsletterStep == last'.op = "relayMessage" /\ isJidNewsletter(last'.jid)

\* C16: a send to a newsletter hands over one stanza whose content is one
\* <plaintext> node; it goes through no Signal operation and leaves the
\* sessions, the sender-key memory and every other column and cache as
\* they are.
C16_NewsletterIsPlaintext ==
    [][NewsletterStep =>
        /\ Len(last'.sent) = 1
        /\ last'.sent[1].content = <<PlainNode("plaintext")>>
        /\ last'.sent[1].to = last'.jid
        /\ last'.ops = {}
        /\ UNCHANGED <<sockVars, ttlVars, session, senderKeyMemory, lidMapping, deviceList,
                       mappingCache, peerSessionsCache, userDevicesCache>>]_vars

\* a newsletter send by a client that holds open sessions and cached devices
C16_Witness ==
    /\ Sent /\ isJidNewsletter(last.jid)
    /\ \E a \in SessAddrs : haveOpenSession(session[a])
    /\ \E u \in AllUsers : userDevicesCache[u] # <<>>


(***************************************************************************)
(* The socket registry: makeWASocket(config, sessionId) replaces the       *)
(* socket registered under the session id.  A call in progress is a record *)
(* of inflight: sock is the socket the call is going to return, existing   *)
(* the socket it found in the registry, pc its position (waiting on the    *)
(* promise or resolved), timer whether its 1.5 s timeout is pending and    *)
(* via the way its done() ran.                                             *)
(***************************************************************************)
Created == {k \in Sockets : sockets[k].created}
Calls   == {inflight[i].sock : i \in Tasks("makeWASocket")}
CallOf(c) == inflight[The({i \in Tasks("makeWASocket") : inflight[i].sock = c})]

\* makeCommunitiesSocket(config): a socket whose transport is connecting
makeCommunitiesSocket(id) ==
    [created |-> TRUE, id |-> id, readyState |-> CONNECTING, own |-> FALSE,
     waiters |-> {}, ev |-> TRUE, terminated |-> FALSE]

\* sock.ws.once("close", ...) of the socket's own deregistration
onceCloseOwn(ws) == [ws EXCEPT !.own = TRUE]

\* existing.ws.once("close", ...) of the replacing call c
onceCloseCall(ws, c) == [ws EXCEPT !.waiters = @ \cup {c}]

\* existing.ws.removeAllListeners(); existing.ev.removeAllListeners()
removeAllListeners(ws) == [ws EXCEPT !.own = FALSE, !.waiters = {}, !.ev = FALSE]

\* the test that guards existing.ws.close()
closeRequested(ws) == ws.readyState \in {CONNECTING, OPEN}

\* existing.ws.close()
close(ws) == [ws EXCEPT !.readyState = CLOSING]

\* existing.ws.terminate()
terminate(ws) ==
    [ws EXCEPT !.terminated = TRUE,
               !.readyState = IF @ = CLOSED THEN CLOSED ELSE CLOSING]

\* the close listener of a socket made by makeWASocket
deregister(map, id, sock) ==
    IF map[id] = sock THEN [map EXCEPT ![id] = 0] ELSE map

\* done() of a call that has not settled: the old socket loses its
\* listeners and the registry loses the entry of the session id
done(map, socks, id, existing) ==
    [map   |-> [map EXCEPT ![id] = 0],
     socks |-> [socks EXCEPT ![existing] = removeAllListeners(@)]]

\* the socket a call found in the registry
Old(socks, existing) == IF existing = 0 THEN NoSocket ELSE socks[existing]

\* the socket is created and registered, and the call returns
Register(c, id, existing, requested, readyState, via, map, socks) ==
    /\ sockets' = [socks EXCEPT ![c] = onceCloseOwn(makeCommunitiesSocket(id))]
    /\ socketMap' = [map EXCEPT ![id] = c]
    /\ last' = [op |-> "makeWASocket", id |-> id, sock |-> c,
                existing |-> existing, requested |-> requested,
                readyState |-> readyState, via |-> via,
                closed |-> Old(socks, existing).readyState = CLOSED,
                terminated |-> Old(socks, existing).terminated,
                listeners |-> \E ws \in {Old(socks, existing)} :
                                  ws.own \/ ws.ev \/ ws.waiters # {},
                entry |-> c]

\* makeWASocket(config, id) up to its first await, or to its return when
\* the registry holds no socket for id
MakeWASocket(id) ==
    /\ Len(inflight) < MaxCalls
    /\ Cardinality(Created) + Len(inflight) < MaxSockets
    /\ \E c \in {Cardinality(Created) + Len(inflight) + 1} :
       \E existing \in {socketMap[id]} :
          IF existing = 0
          THEN /\ Register(c, id, 0, FALSE, CONNECTING, "none", socketMap, sockets)
               /\ UNCHANGED inflight
          ELSE IF closeRequested(sockets[existing])
          THEN /\ sockets' = [sockets EXCEPT
                     ![existing] = close(onceCloseCall(@, c))]
               /\ inflight' = Append(inflight,
                     [op |-> "makeWASocket", id |-> id, sock |-> c,
                      existing |-> existing, requested |-> TRUE,
                      readyState |-> sockets[existing].readyState,
                      pc |-> "waiting", timer |-> TRUE, via |-> "none"])
               /\ last' = NoCall
               /\ UNCHANGED socketMap
          ELSE \E d \in {done(socketMap, sockets, id, existing)} :
               /\ sockets' = d.socks
               /\ socketMap' = d.map
               /\ inflight' = Append(inflight,
                     [op |-> "makeWASocket", id |-> id, sock |-> c,
                      existing |-> existing, requested |-> FALSE,
                      readyState |-> sockets[existing].readyState,
                      pc |-> "resolved", timer |-> FALSE, via |-> "state"])
               /\ last' = NoCall
    /\ UNCHANGED <<lidMapping, mappingCache, session, deviceList,
                   migratedSessionCache, peerSessionsCache, relayVars, ttlVars>>

\* the 1.5 s timeout of call c fires: terminate, then done()
TimerFires(c) ==
    /\ c \in Calls
    /\ CallOf(c).pc = "waiting" /\ CallOf(c).timer
    /\ \E call \in {CallOf(c)} :
       \E d \in {done(socketMap,
                      [sockets EXCEPT ![call.existing] = terminate(@)],
                      call.id, call.existing)} :
          /\ sockets' = d.socks
          /\ socketMap' = d.map
          /\ inflight' = [i \in 1..Len(inflight) |->
                IF inflight[i].sock = c
                THEN [inflight[i] EXCEPT !.pc = "resolved", !.timer = FALSE,
                                         !.via = "timer"]
                ELSE inflight[i]]
    /\ last' = NoCall
    /\ UNCHANGED <<lidMapping, mappingCache, session, deviceList,
                   migratedSessionCache, peerSessionsCache, relayVars, ttlVars>>

\* the transport of socket k emits close: the socket's own listener runs,
\* then the listener of every call that waits for this transport
TransportClose(k) ==
    /\ sockets[k].created /\ sockets[k].readyState # CLOSED
    /\ \E ws \in {sockets[k]} :
       \E map \in {IF ws.own THEN deregister(socketMap, ws.id, k) ELSE socketMap} :
          /\ socketMap' = IF ws.waiters # {} THEN [map EXCEPT ![ws.id] = 0] ELSE map
          /\ sockets' = [sockets EXCEPT ![k] =
                IF ws.waiters # {}
                THEN removeAllListeners([ws EXCEPT !.readyState = CLOSED])
                ELSE [ws EXCEPT !.readyState = CLOSED, !.own = FALSE]]
          /\ inflight' = [i \in 1..Len(inflight) |->
                IF inflight[i].sock \in ws.waiters
                THEN [inflight[i] EXCEPT !.pc = "resolved", !.timer = FALSE,
                                         !.via = "close"]
                ELSE inflight[i]]
    /\ last' = NoCall
    /\ UNCHANGED <<lidMapping, mappingCache, session, deviceList,
                   migratedSessionCache, peerSessionsCache, relayVars, ttlVars>>

\* the await of call c is over: the rest of makeWASocket runs
MakeResume(c) ==
    /\ c \in Calls
    /\ CallOf(c).pc = "resolved"
    /\ \E call \in {CallOf(c)} :
          Register(c, call.id, call.existing, call.requested, call.readyState,
                   call.via, socketMap, sockets)
    /\ inflight' = SelectSeq(inflight, LAMBDA t : t.sock # c)
    /\ UNCHANGED <<lidMapping, mappingCache, session, deviceList,
                   migratedSessionCache, peerSessionsCache, relayVars, ttlVars>>

\* the transport of socket k opens
TransportOpen(k) ==
    /\ sockets[k].created /\ sockets[k].readyState = CONNECTING
    /\ sockets' = [sockets EXCEPT ![k].readyState = OPEN]
    /\ last' = NoCall
    /\ UNCHANGED <<lidMapping, mappingCache, session, deviceList, socketMap,
                   migratedSessionCache, peerSessionsCache, relayVars, ttlVars, inflight>>

\* the owner of socket k ends it: its transport is asked to close
TransportEnd(k) ==
    /\ sockets[k].created /\ sockets[k].readyState \in {CONNECTING, OPEN}
    /\ sockets' = [sockets EXCEPT ![k] = close(@)]
    /\ last' = NoCall
    /\ UNCHANGED <<lidMapping, mappingCache, session, deviceList, socketMap,
                   migratedSessionCache, peerSessionsCache, relayVars, ttlVars, inflight>>

NextSocket ==
    \/ \E id \in SessionIds : MakeWASocket(id)
    \/ \E c \in Sockets : TimerFires(c)
    \/ \E c \in Sockets : MakeResume(c)
    \/ \E k \in Sockets : TransportClose(k)
    \/ \E k \in Sockets : TransportOpen(k)
    \/ \E k \in Sockets : TransportEnd(k)

SpecSocket == Init /\ [][NextSocket]_vars

\* the event loop runs every pending timeout and every resolved await
SpecSocketFair ==
    /\ SpecSocket
    /\ \A c \in Sockets : WF_vars(TimerFires(c)) /\ WF_vars(MakeResume(c))


\* a makeWASocket call that found a socket in the registry has returned
Replaced == last.op = "makeWASocket" /\ last.existing # 0

\* every call in progress returns: its socket is created
EveryCallReturns ==
    \A c \in Sockets : (c \in Calls) ~> sockets[c].created

\* C17: a makeWASocket call that finds a socket with a transport under its
\* session id requests close on the old transport iff it is CONNECTING or
\* OPEN, creates the new socket only after the old transport's close event
\* fired or the timer fired and terminate was invoked, leaves the old socket
\* without listeners, and returns with the registry mapping the id to the
\* returned socket; and every such call eventually returns
C17_ReplaceAfterCloseOrTerminate ==
    /\ [](Replaced =>
            /\ last.requested <=> last.readyState \in {CONNECTING, OPEN}
            /\ last.closed \/ (last.via = "timer" /\ last.terminated)
            /\ ~last.listeners
            /\ socketMap[last.id] = last.sock)
    /\ EveryCallReturns

\* the transport of socket k emits close in this step
CloseStep(k) ==
    /\ sockets[k].created /\ sockets[k].readyState # CLOSED
    /\ sockets'[k].readyState = CLOSED

\* C18: when a socket made by makeWASocket emits close, the entry of its
\* session id is removed from the registry iff the entry is that socket; the
\* entry of a successor is left alone
C18_CloseRemovesOwnEntryOnly ==
    [][\A k \in Sockets : CloseStep(k) =>
          \E id \in {sockets[k].id} :
             /\ socketMap[id] = k => socketMap'[id] = 0
             /\ socketMap[id] # k => socketMap'[id] = socketMap[id]]_vars

\* socket k was created and has neither closed nor been asked to close
Live(k) == sockets[k].created /\ sockets[k].readyState \in {CONNECTING, OPEN}

\* C29: under every interleaving of makeWASocket calls, a socket that was
\* created and has neither closed nor been asked to close is the entry of
\* its session id in the registry, so that an id has at most one live
\* socket; and no step removes the entry of a session id while the socket
\* it holds is live.
C29_LiveSocketIsEntry ==
    /\ [](\A k \in Sockets : Live(k) => socketMap[sockets[k].id] = k)
    /\ [][\A id \in SessionIds :
             (socketMap[id] # 0 /\ socketMap'[id] = 0) =>
                 sockets'[socketMap[id]].readyState \notin {CONNECTING, OPEN}]_vars


---------------------------------------------------------------------------
(* getUSyncDevices called on its own, and the claims on it *)

\* the jids asked for: at user level, with a device, and both
DeviceJidLists ==
    {<<LidJid(L)>>, <<PnJid(U)>>, <<Jid(L, 1, "lid")>>,
     <<LidJid(L), LidJid(MeLidUser)>>, <<Jid(L, 1, "lid"), LidJid(MeLidUser)>>}

DeviceEnvs ==
    [known : {RelayKnowledge}, served : {RelayBundles},
     hosted : {{}, {U, L}}, skipOwn : BOOLEAN]

\* the key store fails on the set of one column (fail), lines 301-317 and
\* 368-385: a failed set of 'lid-mapping' leaves storeLIDPNMappings by an
\* exception that nothing in getUSyncDevices catches, a failed set of
\* 'device-list' is caught and logged; r is the result without failure
KeysSetFails(r, look, st, env, fail) ==
    IF fail = "lid-mapping" /\ look.toFetch # <<>>
    THEN The({
        IF Len(scan.pairMap) = 0 \/ scan.returned THEN [ret |-> "ok"] @@ r
        ELSE [ret |-> "throw", devices |-> <<>>, sessions |-> st.sessions,
              store |-> st.store, cache |-> scan.cache, peer |-> st.peer,
              udc |-> st.udc, lists |-> st.lists]
        : scan \in {StoreScan(LidResults(UsyncList(look.toFetch), env.known), st.store,
                              [cache |-> st.cache, pairMap |-> <<>>, warns |-> 0,
                               returned |-> FALSE])} })
    ELSE IF fail = "device-list"
    THEN [ret |-> "ok"] @@ [r EXCEPT !.lists = st.lists]
    ELSE [ret |-> "ok"] @@ r

DevicesCall(lists, fails) ==
    \E jids \in lists, useCache \in BOOLEAN, env \in DeviceEnvs, fail \in fails :
      \E st \in {[sessions |-> session, store |-> lidMapping,
                   cache |-> mappingCache, peer |-> peerSessionsCache,
                   udc |-> userDevicesCache, lists |-> deviceList]} :
        \E look \in {CacheLookup(jidsWithUser(jids), useCache, userDevicesCache,
                                 [devices |-> ExplicitDevices(jids), toFetch |-> <<>>])} :
          \E r \in {KeysSetFails(getUSyncDevices(jids, useCache, FALSE, st, env),
                                 look, st, env, fail)} :
            /\ session' = r.sessions
            /\ lidMapping' = r.store
            /\ mappingCache' = r.cache
            /\ peerSessionsCache' = r.peer
            /\ userDevicesCache' = r.udc
            /\ deviceList' = r.lists
            /\ last' = [op |-> "getUSyncDevices", jids |-> jids, useCache |-> useCache,
                        fail |-> fail, ret |-> r.ret,
                        devices |-> r.devices, asked |-> look.toFetch,
                        returned |-> IF look.toFetch = <<>> THEN <<>>
                                     ELSE DeviceMap(UsyncList(look.toFetch), FALSE, env)]
            /\ UNCHANGED <<sockVars, ttlVars, migratedSessionCache, senderKeyMemory, inflight>>

GetUSyncDevices == DevicesCall(DeviceJidLists, {"none"})

\* the same calls over a key store whose sets may fail
GetUSyncDevicesKeysFail ==
    DevicesCall({<<PnJid(U)>>, <<LidJid(L)>>}, {"none", "lid-mapping", "device-list"})

NextDevices ==
    \/ GetUSyncDevices
    \/ UserDevicesCacheExpire

SpecDevices == Init /\ [][NextDevices]_vars

NextDevicesKeysFail ==
    \/ GetUSyncDevicesKeysFail
    \/ UserDevicesCacheExpire

SpecDevicesKeysFail == Init /\ [][NextDevicesKeysFail]_vars

DevicesStep == last'.op = "getUSyncDevices"

\* the inputs of the call at user level
UserLevel(jids) == {jids[i] : i \in {j \in 1..Len(jids) : ~isExplicitDevice(jids[j])}}

\* C31: getUSyncDevices returns the input jids that name a device as they
\* are, serves the user-level inputs from the user-devices cache when
\* useCache is true, and queries the server exactly for the users that
\* missed the cache (for none when all are cached, for every user-level
\* input when useCache is false); after a query the cache and the
\* device-list column hold the returned list of every returned user.
C31_QueryExactlyTheMisses ==
    [][DevicesStep =>
        /\ \A i \in 1..Len(last'.jids) :
               isExplicitDevice(last'.jids[i]) =>
                   \E k \in 1..Len(last'.devices) :
                       /\ last'.devices[k].jid = last'.jids[i]
                       /\ last'.devices[k].user = last'.jids[i].user
                       /\ last'.devices[k].device = last'.jids[i].device
        /\ \A j \in UserLevel(last'.jids) :
               (last'.useCache /\ userDevicesCache[j.user] # <<>>) =>
                   /\ jidNormalizedUser(j) \notin ToSet(last'.asked)
                   /\ ToSet(WithJid(userDevicesCache[j.user])) \subseteq ToSet(last'.devices)
        /\ ToSet(last'.asked) =
               {jidNormalizedUser(j) : j \in
                   {x \in UserLevel(last'.jids) :
                       ~(last'.useCache /\ userDevicesCache[x.user] # <<>>)}}
        /\ \A i \in 1..Len(last'.returned) :
               last'.returned[i].value # <<>> =>
                   /\ userDevicesCache'[last'.returned[i].key] = last'.returned[i].value
                   /\ deviceList'[last'.returned[i].key] =
                          {last'.returned[i].value[k].device
                              : k \in 1..Len(last'.returned[i].value)}
                   /\ ToSet(WithJid(last'.returned[i].value)) \subseteq ToSet(last'.devices)]_vars

\* a call with a cached user and a user that missed the cache: one is
\* served from the cache, the other is asked of the server and cached
C31_Witness ==
    /\ last.op = "getUSyncDevices" /\ last.useCache
    /\ Len(last.jids) = 2 /\ UserLevel(last.jids) = ToSet(last.jids)
    /\ Len(last.asked) = 1
    /\ Len(last.returned) = 1 /\ last.returned[1].value # <<>>
    /\ \E k \in 1..Len(last.devices) : last.devices[k].user # last.returned[1].key


---------------------------------------------------------------------------
(* Claims on the migrated-session cache *)

MigrateStep == last'.op = "migrateSession"

\* the call of this step repeats the call before it, which migrated a session
MigrateAgainStep ==
    /\ MigrateStep
    /\ last.op = "migrateSession" /\ last.ret = "ok" /\ last.counts.migrated > 0
    /\ last'.from = last.from /\ last'.to = last.to

\* C32: migrateSession leaves the sessions of a device marked in the
\* migrated-session cache as they are; called again right after a migration
\* it writes nothing to the session column and returns migrated = 0; and
\* for a source user without a persisted device list it writes nothing and
\* returns {migrated: 0, skipped: 0, total: 0}.
C32_CachedDeviceNotMigrated ==
    [][MigrateStep =>
        /\ \A k \in migratedSessionCache :
               \A a \in SessAddrs :
                   (a.device = k.device /\ (a.user = k.user \/ a.user = jidDecode(last'.to).user))
                       => session'[a] = session[a]
        /\ MigrateAgainStep =>
               (session' = session /\ last'.counts.migrated = 0)
        /\ (isPnUser(last'.from) /\ deviceList[jidDecode(last'.from).user] = {}) =>
               (session' = session /\ last'.counts = Counts(0, 0, 0))]_vars

\* a call repeated right after it migrated, while a device it migrated is
\* marked in the cache, and a call that left alone the open PN session of a
\* marked device
C32_Witness ==
    /\ last.op = "migrateSession" /\ last.ret = "ok"
    /\ isPnUser(last.from) /\ isLidUser(last.to)
    /\ last.counts.migrated = 0
    /\ \E k \in migratedSessionCache :
           haveOpenSession(session[Addr(k.user, WHATSAPP, k.device)])


---------------------------------------------------------------------------
(* Claims on the lookups of the mapping store *)

\* the mapping of the PN user is in the mapping cache or in the key store
MappingHeld(user) ==
    mappingCache[PnCacheKey(user)] # Null \/ lidMapping[FwdKey(user)] # Null

\* C33: getLIDsForPNs returns a pair for every input PN whose mapping is in
\* the mapping cache or the key store, also when other inputs of the call
\* go to the resolver and the resolver returns null or an empty list.
C33_HeldMappingsReturned ==
    [][last'.op = "getLIDsForPNs" =>
        \A i \in 1..Len(last'.pns) :
            MappingHeld(last'.pns[i].user) =>
                /\ last'.ret = "ok"
                /\ \E k \in 1..Len(last'.pairs) : last'.pairs[k].pn = last'.pns[i]]_vars

\* a getLIDForPN call for which no mapping is available: the input is no PN
\* jid, or its mapping is neither held before the call nor learnt by it
NoMappingStep ==
    /\ last'.op = "getLIDForPN"
    /\ \/ ~isPnUser(last'.pn) /\ ~isHostedPnUser(last'.pn)
       \/ /\ ~MappingHeld(last'.pn.user)
          /\ lidMapping'[FwdKey(last'.pn.user)] = Null

\* C34: getLIDForPN returns null and does not throw when no mapping is
\* available: for an input that is no PN jid and for a resolver that
\* returns null, an empty list or no pair of the requested PN.
C34_NoMappingGivesNull ==
    [][NoMappingStep => (last'.ret = "ok" /\ last'.lid = NoJid)]_vars


---------------------------------------------------------------------------
(* Claims on failures of the key store *)

\* C35: a key-store failure while the LID-PN mappings or the device lists
\* are persisted during getUSyncDevices is swallowed: the call does not
\* throw and returns the devices the USync query enumerated.
C35_PersistFailureSwallowed ==
    (last.op = "getUSyncDevices" /\ last.fail # "none") =>
        /\ last.ret = "ok"
        /\ \A i \in 1..Len(last.returned) :
               ToSet(WithJid(last.returned[i].value)) \subseteq ToSet(last.devices)


---------------------------------------------------------------------------
(* getPNForLID on the LIDs of devices *)

\* the LIDs asked for: of a user, of a device, and of a hosted device
DeviceLids ==
    {Jid(l, d, "lid") : l \in LidUsers, d \in {Undef, 1}}
    \cup {Jid(l, HostedDevice, "hosted.lid") : l \in LidUsers}

GetPNForLIDDevice ==
    \E lid \in DeviceLids :
      \E r \in {getPNForLID(lid, lidMapping, mappingCache)} :
        /\ mappingCache' = r.cache
        /\ last' = [op |-> "getPNForLID", lid |-> lid, pn |-> r.pn]
        /\ UNCHANGED <<sockVars, ttlVars, relayVars, lidMapping, sessVars>>

NextReverse ==
    \/ StoreOrientedPairs
    \/ GetPNForLIDDevice
    \/ MappingCacheExpire

SpecReverse == Init /\ [][NextReverse]_vars

\* C36: getPNForLID on a LID jid whose reverse mapping is stored returns
\* <pn-user>:<device>@hosted when the LID is a hosted LID (server
\* hosted.lid) and <pn-user>:<device>@s.whatsapp.net otherwise, with the
\* device of the LID; the PN user is the one the store or the cache holds.
C36_ReverseKeepsDeviceAndHost ==
    (/\ last.op = "getPNForLID"
     /\ isLidUser(last.lid) \/ isHostedLidUser(last.lid)
     /\ lidMapping[RevKey(last.lid.user)] # Null) =>
        /\ last.pn.user \in {lidMapping[RevKey(last.lid.user)],
                             mappingCache[LidCacheKey(last.lid.user)]}
        /\ last.pn.device = DeviceOr0(last.lid.device)
        /\ last.pn.server =
               IF isHostedLidUser(last.lid) THEN "hosted" ELSE "s.whatsapp.net"


---------------------------------------------------------------------------
(* createParticipantNodes with a device-sent message *)

\* the recipients: the peer, another device of the sender, and the sending
\* device itself by LID and by PN
NodeJids == {LidJid(L), LidJid(MeLidUser), meLid, meId}

NodeLists == SeqsUpTo(NodeJids, MaxFanout) \ {<<>>}

\* the device-sent message also for the sending device
msgToEncryptOwnUser(jid, dsmMessage) ==
    IF dsmMessage /\ isMyUser(jidDecode(jid).user) THEN "dsm" ELSE "message"

\* lines 519-530: the message encrypted to a recipient; dsmMessage: the
\* call was given one
msgToEncrypt(jid, dsmMessage) ==
    IF dsmMessage /\ isMyUser(jidDecode(jid).user) /\ ~isExactSenderDevice(jid)
    THEN "dsm" ELSE "message"

\* createParticipantNodes(recipientJids, message, extraAttrs, dsmMessage)
CreateParticipantNodes ==
    \E recipientJids \in NodeLists, dsmMessage \in BOOLEAN :
      \E r \in {createParticipantNodes(recipientJids, session, RelayKnowledge,
                    [ret |-> "ok", nodes |-> <<>>,
                     store |-> lidMapping, cache |-> mappingCache])} :
        /\ lidMapping' = r.store
        /\ mappingCache' = r.cache
        /\ last' = [op |-> "createParticipantNodes", recipientJids |-> recipientJids,
                    dsmMessage |-> dsmMessage, ret |-> r.ret,
                    nodes |-> IF r.ret = "ok"
                              THEN [k \in 1..Len(r.nodes) |->
                                       [jid |-> r.nodes[k],
                                        msg |-> msgToEncrypt(r.nodes[k], dsmMessage)]]
                              ELSE <<>>]
        /\ UNCHANGED <<sockVars, ttlVars, relayVars, sessVars>>

\* assertSessions(recipients) of the send, before the nodes are created
AssertRecipients ==
    \E recipientJids \in {<<jid>> : jid \in NodeJids} :
      \E r \in {assertSessions(recipientJids, FALSE, session, lidMapping, mappingCache,
                               peerSessionsCache, RelayKnowledge, RelayBundles)} :
        /\ session' = r.sessions
        /\ lidMapping' = r.store
        /\ mappingCache' = r.cache
        /\ peerSessionsCache' = r.peer
        /\ last' = NoCall
        /\ UNCHANGED <<sockVars, ttlVars, relayVars, deviceList, migratedSessionCache, inflight>>

NextNodes ==
    \/ CreateParticipantNodes
    \/ AssertRecipients

SpecNodes == Init /\ [][NextNodes]_vars

\* C37: createParticipantNodes with a dsmMessage encrypts the dsmMessage to
\* a recipient if and only if the recipient's user is the sender's PN user
\* or LID user and its jid is not the jid of the sending device; every
\* other recipient gets the message; there is one <to> node per recipient.
C37_DsmForOwnOtherDevices ==
    (last.op = "createParticipantNodes" /\ last.ret = "ok" /\ last.dsmMessage) =>
        /\ Len(last.nodes) = Len(last.recipientJids)
        /\ \A k \in 1..Len(last.nodes) :
               /\ last.nodes[k].jid = last.recipientJids[k]
               /\ last.nodes[k].msg \in {"dsm", "message"}
               /\ last.nodes[k].msg = "dsm" <=>
                      /\ last.nodes[k].jid.user \in {MePnUser, MeLidUser}
                      /\ last.nodes[k].jid \notin {meId, meLid}

\* a call with a dsmMessage that has encrypted to the sending device and to
\* another device of the sender
C37_Witness ==
    /\ last.op = "createParticipantNodes" /\ last.ret = "ok" /\ last.dsmMessage
    /\ \E k \in 1..Len(last.nodes) : last.nodes[k].jid \in {meId, meLid}
    /\ \E k \in 1..Len(last.nodes) : last.nodes[k].msg = "dsm"


---------------------------------------------------------------------------
(* The encryption mutex and the IQs of the resolver *)

\* createParticipantNodes starts the encryptions of its recipients
FanoutBegin ==
    /\ inflight = <<>>
    /\ \E R \in RelayRecipients :
           inflight' = [i \in 1..Len(R) |-> EncryptTask(R[i], "mutex")]
    /\ last' = NoCall
    /\ UNCHANGED <<sockVars, ttlVars, relayVars, mapVars, session, deviceList,
                   migratedSessionCache, peerSessionsCache>>

\* the USync IQ the resolver of the mapping store has sent for a jid
UsyncIq(jid) == [op |-> "executeUSyncQuery", tag |-> Tag("iq", 0), jid |-> jid]
IqOutstanding(jid) ==
    \E i \in Tasks("executeUSyncQuery") : inflight[i].jid = jid

\* getLIDsForPNs lines 183-206 for the address of a recipient: a PN address
\* whose user is neither in the mapping cache nor in the key store
ResolverNeeded(jid) ==
    /\ jidToSignalProtocolAddress(jid).domain \notin {LID, HOSTED_LID}
    /\ mappingCache[PnCacheKey(jid.user)] = Null
    /\ lidMapping[FwdKey(jid.user)] = Null

\* loadSession -> resolveLIDSignalAddress -> getLIDForPN misses and calls
\* pnToLIDFunc: the IQ is sent
EncryptQuery ==
    \E i \in Tasks("encryptMessage") :
        /\ inflight[i].pc = "load"
        /\ ~IqOutstanding(inflight[i].jid)
        /\ ResolverNeeded(inflight[i].jid)
        /\ inflight' = Append(inflight, UsyncIq(inflight[i].jid))
        /\ last' = NoCall
        /\ UNCHANGED <<sockVars, ttlVars, relayVars, mapVars, session, deviceList,
                       migratedSessionCache, peerSessionsCache>>

\* the rest of loadSession, when the address is resolved without the
\* resolver (known = NoResolver) or when the IQ is answered (known): the
\* record is loaded, without an open session encrypt throws
LoadResolved(i, known, rest) ==
    \E w \in {resolveLIDSignalAddress(jidToSignalProtocolAddress(inflight[i].jid),
                                       lidMapping, mappingCache, known)} :
        /\ lidMapping' = w.store
        /\ mappingCache' = w.cache
        /\ inflight' =
              IF w.ret = "ok" /\ haveOpenSession(SessionGet(session, w.addr))
              THEN [k \in 1..Len(rest) |->
                       IF rest[k] = inflight[i]
                       THEN [rest[k] EXCEPT !.pc = "store", !.addr = w.addr,
                                            !.rec = SessionGet(session, w.addr)]
                       ELSE rest[k]]
              ELSE SelectSeq(rest, LAMBDA t : t # inflight[i])

EncryptLoadHeld ==
    \E i \in Tasks("encryptMessage") :
        /\ inflight[i].pc = "load"
        /\ ~ResolverNeeded(inflight[i].jid)
        /\ LoadResolved(i, NoResolver, inflight)
        /\ last' = NoCall
        /\ UNCHANGED <<sockVars, ttlVars, relayVars, session, deviceList,
                       migratedSessionCache, peerSessionsCache>>

\* the server answers the IQ
UsyncAnswer ==
    \E q \in Tasks("executeUSyncQuery"), known \in AssertKnowledge :
      \E i \in {k \in Tasks("encryptMessage") :
                   inflight[k].jid = inflight[q].jid /\ inflight[k].pc = "load"} :
        /\ LoadResolved(i, known, RemoveAt(inflight, q))
        /\ last' = NoCall
        /\ UNCHANGED <<sockVars, ttlVars, relayVars, session, deviceList,
                       migratedSessionCache, peerSessionsCache>>

NextMutex ==
    \/ FanoutBegin
    \/ EncryptAcquire
    \/ EncryptQuery
    \/ EncryptLoadHeld
    \/ UsyncAnswer
    \/ EncryptStore
    \/ PeerInjectE2ESession
    \/ StoreUserMapping
    \/ MappingCacheExpire

SpecMutex == Init /\ [][NextMutex]_vars

\* C38: no network IQ is outstanding while the encryption mutex of a
\* recipient is held: inside the mutex only the Signal encryption and its
\* reads and writes of the key store run, also for a PN recipient without
\* a LID mapping in the cache or the key store.
C38_NoIqUnderMutex ==
    \A jid \in PeerJids : MutexHeld(jid) => Tasks("executeUSyncQuery") = {}


---------------------------------------------------------------------------
(* storeLIDPNMappings on pairs given with swapped fields *)

\* the lid field holds the PN jid and the pn field the LID jid
SwappedPairs == {[lid |-> PnJid(p), pn |-> LidJid(l)] : p \in PnUsers, l \in LidUsers}

Unswapped(pair) == [lid |-> pair.pn, pn |-> pair.lid]

StoreSwappedPairs ==
    StoreCall(SwappedPairs \cup {[lid |-> LidJid("l1"), pn |-> PnJid("p1")]})

NextStoreSwapped ==
    \/ StoreSwappedPairs
    \/ MappingCacheExpire

SpecStoreSwapped == Init /\ [][NextStoreSwapped]_vars

\* a call on one pair with swapped fields
SwappedStep ==
    /\ StoreCallStep /\ Len(last'.pairs) = 1
    /\ last'.pairs[1] \in SwappedPairs

\* C39: storeLIDPNMappings persists a pair given with swapped fields as it
\* persists the unswapped pair: the forward key is the PN user and the
\* reverse key the LID user.
C39_SwappedPairSameOrientation ==
    [][SwappedStep =>
        /\ lidMapping' =
               storeLIDPNMappings(<<Unswapped(last'.pairs[1])>>,
                                  lidMapping, mappingCache).store
        /\ lidMapping'[FwdKey(last'.pairs[1].lid.user)] = last'.pairs[1].pn.user
        /\ lidMapping'[RevKey(last'.pairs[1].pn.user)] = last'.pairs[1].lid.user]_vars


---------------------------------------------------------------------------
(* TTLCache used on its own, with time passing *)

\* new TTLCache({ ttl, updateAgeOnGet })
TTLNew ==
    \E ttl \in 0..MaxTtl, updateAgeOnGet \in BOOLEAN :
        /\ ttlCache' = TTLCache(ttl, updateAgeOnGet)
        /\ last' = NoCall
        /\ UNCHANGED <<now, sockVars, relayVars, mapVars, sessVars>>

TTLSetCall ==
    \E key \in TtlKeys, value \in TtlValues :
        /\ ttlCache' = TTLSet(ttlCache, key, value, now)
        /\ last' = NoCall
        /\ UNCHANGED <<now, sockVars, relayVars, mapVars, sessVars>>

TTLGetCall ==
    \E key \in TtlKeys :
      \E r \in {TTLGet(ttlCache, key, now)} :
        /\ ttlCache' = r.cache
        /\ last' = [op |-> "TTLCache.get", key |-> key, now |-> now,
                    held |-> key \in DOMAIN ttlCache.map,
                    expiresAt |-> IF key \in DOMAIN ttlCache.map
                                  THEN ttlCache.map[key].expiresAt ELSE 0,
                    ret |-> r.ret]
        /\ UNCHANGED <<now, sockVars, relayVars, mapVars, sessVars>>

\* the clock advances
Tick ==
    /\ now < MaxTime
    /\ now' = now + 1
    /\ last' = NoCall
    /\ UNCHANGED <<ttlCache, sockVars, relayVars, mapVars, sessVars>>

NextTTL ==
    \/ TTLNew
    \/ TTLSetCall
    \/ TTLGetCall
    \/ Tick

SpecTTL == Init /\ [][NextTTL]_vars

\* a get of a key the map holds
TTLGetStep ==
    /\ last'.op = "TTLCache.get"
    /\ last'.key \in DOMAIN ttlCache.map

\* the entry read has an expiration time and it is at or before the clock
Expired(item, t) == item.expiresAt # 0 /\ item.expiresAt <= t

\* C40: TTLCache.get never returns the value of an entry whose expiration
\* time is at or before the current time: the entry is removed and the get
\* is a miss; with updateAgeOnGet a hit resets the expiration to now + ttl;
\* with no ttl an entry never expires.
C40_ExpiredEntryIsMiss ==
    [][TTLGetStep =>
        /\ Expired(ttlCache.map[last'.key], now) =>
               /\ last'.ret = Miss
               /\ last'.key \notin DOMAIN ttlCache'.map
        /\ ~Expired(ttlCache.map[last'.key], now) =>
               /\ last'.ret = ttlCache.map[last'.key].value
               /\ last'.key \in DOMAIN ttlCache'.map
               /\ (ttlCache.updateAgeOnGet /\ ttlCache.ttl # 0) =>
                      ttlCache'.map[last'.key].expiresAt = now + ttlCache.ttl
        /\ ttlCache.ttl = 0 =>
               /\ ~Expired(ttlCache.map[last'.key], now)
               /\ ttlCache' = ttlCache]_vars

\* an entry is read at the very time it expires
C40_Witness ==
    /\ last.op = "TTLCache.get"
    /\ last.held /\ last.expiresAt = last.now
    /\ last.ret = Miss

=============================================================================
